---- MODULE Spec2Model ----
(***************************************************************************)
(* Prometheus holographic memory (src/prometheus/memory/holographic_pure.py)*)
(* as a state machine: the pattern map, the tag index, and the calls        *)
(* store / retrieve / reconstruct / get_stats with the eviction             *)
(* _prune_weakest; load_state of Prometheus (src/prometheus/core.py), which *)
(* writes into the same pattern map; and the association graph of           *)
(* AssociativeWeb (src/prometheus/memory/holographic.py).  Further: the    *)
(* memory under two request threads of the web interface                   *)
(* (src/prometheus/interface/web.py), SwarmIntelligence                    *)
(* (src/prometheus/swarm/network.py) and FractalReasoner                   *)
(* (src/prometheus/reasoning/fractal.py), each with a specification of its *)
(* own over the same variables.                                            *)
(*                                                                         *)
(* Numbers.  The code computes in binary floating point.  The model        *)
(* computes the same expressions, in the same order, in fixed point with   *)
(* Scale units to 1.0 (an amplitude of 0.5 is Scale \div 2, an angle of pi *)
(* is Pi).  Texts are sequences of code points; a pattern id is the real   *)
(* sha256 prefix of the text, tabulated for the texts of the model.        *)
(***************************************************************************)
EXTENDS Integers, Sequences, FiniteSets, TLC

VARIABLES
    dimensions,    \* HolographicMemory.dimensions
    max_patterns,  \* HolographicMemory.max_patterns
    patterns,      \* HolographicMemory.patterns: the dict, in insertion order
    index,         \* HolographicMemory.index: tag -> list of pattern ids
    query_count,   \* Prometheus.query_count
    associations,  \* AssociativeWeb.associations: id -> list of (peer, strength)
    threads,       \* the request threads of the web interface: the locals and
                   \* the position of the store and of the retrieve in progress
    reasoner,      \* FractalReasoner: max_depth, specialists, thought_history,
                   \* and the tree and call stack of the reason() in progress
    swarm,         \* SwarmIntelligence: specialists and conversation_history
    last           \* the most recent call: its arguments, outcome and effect

vars == <<dimensions, max_patterns, patterns, index, query_count, associations,
          threads, reasoner, swarm, last>>

(***************************************************************************)
(* Fixed point and small helpers                                           *)
(***************************************************************************)
Scale == 10 * 10 * 10

\* math.pi in fixed point
Pi == (355 * Scale) \div 113

Abs(x) == IF x < 0 THEN -x ELSE x

Min(a, b) == IF a < b THEN a ELSE b

RECURSIVE Sum(_)
Sum(s) == IF s = <<>> THEN 0 ELSE Head(s) + Sum(Tail(s))

RECURSIVE MaxOf(_)
MaxOf(s) == IF Len(s) = 1 THEN s[1]
            ELSE LET m == MaxOf(Tail(s)) IN IF s[1] >= m THEN s[1] ELSE m

\* math.sqrt on fixed-point squares: the integer square root by bisection
RECURSIVE SqrtBetween(_, _, _)
SqrtBetween(x, lo, hi) ==
    IF hi - lo <= 1 THEN lo
    ELSE LET mid == (lo + hi) \div 2
         IN IF mid * mid <= x THEN SqrtBetween(x, mid, hi)
            ELSE SqrtBetween(x, lo, mid)

sqrt(x) == SqrtBetween(x, 0, 4 * Scale)

\* math.cos / math.sin of the angle -2*pi*k*t/n, for n dividing 4: the angle
\* is a whole number of quarter turns, where both are 0, 1 or -1.
QuarterTurns(k, t, n) == ((4 * k * t) \div n) % 4

cos(k, t, n) == CASE QuarterTurns(k, t, n) = 0 -> Scale
                  [] QuarterTurns(k, t, n) = 2 -> -Scale
                  [] OTHER -> 0

sin(k, t, n) == CASE QuarterTurns(k, t, n) = 1 -> -Scale
                  [] QuarterTurns(k, t, n) = 3 -> Scale
                  [] OTHER -> 0

\* math.atan2(y, x) on the axes, the only arguments a transform of 1 or 2
\* samples produces (its imaginary parts are 0)
atan2(y, x) == CASE y = 0 /\ x >= 0 -> 0
                 [] y = 0 /\ x < 0 -> -Pi
                 [] y > 0 -> Pi \div 2
                 [] OTHER -> -(Pi \div 2)

(***************************************************************************)
(* Texts, their UTF-8 bytes and their ids                                  *)
(***************************************************************************)
\* str.encode('utf-8') for code points below 2048
Utf8Char(cp) == IF cp < 128 THEN <<cp>>
                ELSE <<192 + (cp \div 64), 128 + (cp % 64)>>

RECURSIVE encode(_)
encode(text) == IF text = <<>> THEN <<>>
                ELSE Utf8Char(Head(text)) \o encode(Tail(text))

\* hashlib.sha256(content.encode()).hexdigest()[:16], for the model's texts
pattern_id(content) ==
    CASE content = <<>>        -> "e3b0c44298fc1c14"  \* ''
      [] content = <<97>>      -> "ca978112ca1bbdca"  \* 'a'
      [] content = <<233>>     -> "4a99557e4033c353"  \* e-acute, two bytes
      [] content = <<126, 97>> -> "8d5679ec94e658e1"  \* '~a'
      [] content = <<33, 97>>  -> "0266b93cf3014995"  \* '!a'
      [] content = <<97, 98>>  -> "fb8e20fc2e4c3f24"  \* 'ab'
      [] content = <<97, 65>>  -> "af1c08098cf119bb"  \* 'aA'
      [] content = <<65, 97>>  -> "81acaafba961bb83"  \* 'Aa'
      [] content = <<126, 65>> -> "b4f75e17a9ce9336"  \* '~A'
      [] content = <<65, 33>>  -> "8982b44a300b2c11"  \* 'A!'
      [] content = <<126, 33>> -> "c28a10dcaa482098"  \* '~!'
      [] content = <<33>>      -> "bb7208bc9b5d7c04"  \* '!'
      [] content = <<97, 33>>  -> "242ed53862c43c5b"  \* 'a!'
      [] content = <<104, 105>> -> "8f434346648f6b96" \* 'hi'
      [] content = <<126>>     -> "7ace431cb61584cb"  \* '~'
      [] content = <<110>>     -> "1b16b1df538ba12d"  \* 'n'

(***************************************************************************)
(* _text_to_wave                                                           *)
(***************************************************************************)
\* bytes_data[start:end], 0-based and clipped like a Python slice
Slice(s, start, end) ==
    [i \in 1..(IF Min(end, Len(s)) > start THEN Min(end, Len(s)) - start ELSE 0)
        |-> s[start + i]]

\* (mutant) the chunk averages for every text, shorter than dims or not
text_to_wave_chunked(text, dims) ==
    LET bytes_data == encode(text)
        chunk_size == Len(bytes_data) \div dims
        chunk(i) == Slice(bytes_data, i * chunk_size,
                          Min(i * chunk_size + chunk_size, Len(bytes_data)))
    IN [i \in 1..dims |->
          IF chunk(i - 1) # <<>>
          THEN ((Sum(chunk(i - 1)) * Scale) \div Len(chunk(i - 1))) \div 255 ELSE 0]

text_to_wave(text, dims) ==
    LET bytes_data == encode(text)
        chunk_size == Len(bytes_data) \div dims
        chunk(i) == Slice(bytes_data, i * chunk_size,
                          Min(i * chunk_size + chunk_size, Len(bytes_data)))
        avg(i) == IF chunk(i) # <<>> THEN (Sum(chunk(i)) * Scale) \div Len(chunk(i))
                  ELSE 0
    IN IF Len(bytes_data) < dims
       THEN [i \in 1..dims |-> IF i <= Len(bytes_data)
                               THEN (bytes_data[i] * Scale) \div 255 ELSE 0]
       ELSE [i \in 1..dims |-> avg(i - 1) \div 255]

(***************************************************************************)
(* _dft                                                                    *)
(***************************************************************************)
\* real[k] and imag[k]: the sums over t of signal[t] * cos(angle), * sin(angle)
real(signal, k) ==
    Sum([t \in 1..Len(signal) |-> (signal[t] * cos(k, t - 1, Len(signal))) \div Scale])

imag(signal, k) ==
    Sum([t \in 1..Len(signal) |-> (signal[t] * sin(k, t - 1, Len(signal))) \div Scale])

\* amp = math.sqrt(real[k]**2 + imag[k]**2); ph = math.atan2(imag[k], real[k])
Polar(re, im) == [amp |-> sqrt(re * re + im * im), ph |-> atan2(im, re)]

\* max_amp = max(amplitude) if amplitude else 1;
\* amplitude = [a / max_amp for a in amplitude]: the division raises
\* ZeroDivisionError when every amplitude is 0
Normalize(phase, amplitude, max_amp) ==
    IF max_amp = 0
    THEN [raised |-> TRUE, phase |-> phase, amplitude |-> amplitude]
    ELSE [raised |-> FALSE, phase |-> phase,
          amplitude |-> [k \in 1..Len(amplitude) |-> (amplitude[k] * Scale) \div max_amp]]

NormalizePolar(polar) ==
    Normalize([k \in 1..Len(polar) |-> polar[k].ph],
              [k \in 1..Len(polar) |-> polar[k].amp],
              IF polar # <<>> THEN MaxOf([k \in 1..Len(polar) |-> polar[k].amp])
              ELSE Scale)

\* The result of _dft: phase and amplitude, or raised for its exception
dft(signal) ==
    NormalizePolar([k \in 1..Len(signal) |->
                      Polar(real(signal, k - 1), imag(signal, k - 1))])

(***************************************************************************)
(* Metadata: a dict is a function from its keys; None is the absent dict   *)
(***************************************************************************)
None == [NoneType |-> TRUE]

EmptyDict == [k \in {} |-> TRUE]

\* Python truthiness of an Optional[Dict]
Truthy(metadata) == metadata # None /\ DOMAIN metadata # {}

\* metadata.get('tags', []) if metadata else []
TagsOf(metadata) ==
    IF Truthy(metadata) /\ "tags" \in DOMAIN metadata THEN metadata["tags"] ELSE <<>>

(***************************************************************************)
(* The two dicts                                                           *)
(***************************************************************************)
Ids(pats) == {pats[i].id : i \in 1..Len(pats)}

\* self.patterns[pattern_id] = pattern: a present key keeps its place in the
\* dict's order, a new key goes last
DictSet(pats, pattern) ==
    IF pattern.id \in Ids(pats)
    THEN [i \in 1..Len(pats) |-> IF pats[i].id = pattern.id THEN pattern ELSE pats[i]]
    ELSE Append(pats, pattern)

\* del self.patterns[pattern_id]
DictDel(pats, id) == SelectSeq(pats, LAMBDA p : p.id # id)

\* self.index[tag].append(pattern_id), creating the list when the tag is new
IndexAppend(idx, tag, id) ==
    IF tag \in DOMAIN idx THEN [idx EXCEPT ![tag] = Append(@, id)]
    ELSE [t \in DOMAIN idx \cup {tag} |-> IF t = tag THEN <<id>> ELSE idx[t]]

RECURSIVE IndexTags(_, _, _)
IndexTags(idx, tags, id) ==
    IF tags = <<>> THEN idx
    ELSE IndexTags(IndexAppend(idx, Head(tags), id), Tail(tags), id)

Contains(list, x) == \E i \in 1..Len(list) : list[i] = x

\* list.remove(x): the first occurrence only
RECURSIVE ListRemove(_, _)
ListRemove(list, x) ==
    IF list = <<>> THEN <<>>
    ELSE IF Head(list) = x THEN Tail(list)
    ELSE <<Head(list)>> \o ListRemove(Tail(list), x)

(***************************************************************************)
(* _prune_weakest                                                          *)
(***************************************************************************)
\* (mutant) the sort with its order reversed: the most coherent first
RECURSIVE InsertMostCoherentFirst(_, _)
InsertMostCoherentFirst(sorted, p) ==
    IF sorted = <<>> THEN <<p>>
    ELSE IF Head(sorted).coherence >= p.coherence
         THEN <<Head(sorted)>> \o InsertMostCoherentFirst(Tail(sorted), p)
         ELSE <<p>> \o sorted

\* sorted(..., key=coherence): stable, equal keys keep the dict's order
RECURSIVE InsertByCoherence(_, _)
InsertByCoherence(sorted, p) ==
    IF sorted = <<>> THEN <<p>>
    ELSE IF Head(sorted).coherence <= p.coherence
         THEN <<Head(sorted)>> \o InsertByCoherence(Tail(sorted), p)
         ELSE <<p>> \o sorted

RECURSIVE SortByCoherence(_)
SortByCoherence(pats) ==
    IF pats = <<>> THEN <<>>
    ELSE InsertByCoherence(SortByCoherence(SubSeq(pats, 1, Len(pats) - 1)),
                           pats[Len(pats)])

\* len(sorted_patterns) // 10
ToRemove(n) == n \div 10

\* for tag_list in self.index.values(): if id in tag_list: tag_list.remove(id)
StripId(idx, id) ==
    [t \in DOMAIN idx |-> IF Contains(idx[t], id) THEN ListRemove(idx[t], id) ELSE idx[t]]

RECURSIVE RemoveAll(_, _)
RemoveAll(mem, victims) ==
    IF victims = <<>> THEN mem
    ELSE RemoveAll([patterns |-> DictDel(mem.patterns, Head(victims).id),
                    index |-> StripId(mem.index, Head(victims).id)],
                   Tail(victims))

\* sorted_patterns[:to_remove]
Weakest(sorted_patterns) ==
    SubSeq(sorted_patterns, 1, ToRemove(Len(sorted_patterns)))

Evict(mem, victims) == [mem |-> RemoveAll(mem, victims), evicted |-> victims]

\* The memory after _prune_weakest, and the patterns it removed
prune_weakest(mem) == Evict(mem, Weakest(SortByCoherence(mem.patterns)))

(***************************************************************************)
(* store                                                                   *)
(***************************************************************************)
\* (mutant) the largest amplitude in place of the mean
CoherenceOfPeak(amplitude) ==
    IF amplitude # <<>> THEN MaxOf(amplitude) ELSE 0

\* sum(amplitude) / len(amplitude) if amplitude else 0
Coherence(amplitude) ==
    IF amplitude # <<>> THEN Sum(amplitude) \div Len(amplitude) ELSE 0

\* MemoryPattern(id=..., phase_spectrum=..., amplitude_spectrum=...,
\*               metadata=metadata or {}, coherence=coherence)
MemoryPattern(content, metadata, spectrum) ==
    [id |-> pattern_id(content),
     phase_spectrum |-> spectrum.phase,
     amplitude_spectrum |-> spectrum.amplitude,
     metadata |-> IF Truthy(metadata) THEN metadata ELSE EmptyDict,
     coherence |-> Coherence(spectrum.amplitude)]

\* self.patterns[pattern_id] = pattern, then the loop over the tags
Insert(mem, pattern, tags) ==
    [patterns |-> DictSet(mem.patterns, pattern),
     index |-> IndexTags(mem.index, tags, pattern.id)]

Returned(id, mem, evicted, ran) ==
    [raised |-> FALSE, id |-> id, mem |-> mem, pruned |-> ran, evicted |-> evicted]

AfterPrune(id, out) == Returned(id, out.mem, out.evicted, TRUE)

\* if len(self.patterns) > self.max_patterns: self._prune_weakest()
ManageCapacity(id, inserted, cap) ==
    IF Len(inserted.patterns) > cap THEN AfterPrune(id, prune_weakest(inserted))
    ELSE Returned(id, inserted, <<>>, FALSE)

StorePattern(mem, cap, pattern, tags) ==
    ManageCapacity(pattern.id, Insert(mem, pattern, tags), cap)

StoreSpectrum(mem, cap, content, metadata, spectrum) ==
    IF spectrum.raised
    THEN [raised |-> TRUE, id |-> "", mem |-> mem, pruned |-> FALSE, evicted |-> <<>>]
    ELSE StorePattern(mem, cap, MemoryPattern(content, metadata, spectrum),
                      TagsOf(metadata))

\* The outcome of store(content, metadata) on the memory mem of configuration
\* dims, cap: raised (the exception of _dft leaves the memory untouched), the
\* id returned, the memory afterwards, whether _prune_weakest ran and what it
\* removed.
store(mem, dims, cap, content, metadata) ==
    StoreSpectrum(mem, cap, content, metadata, dft(text_to_wave(content, dims)))

(***************************************************************************)
(* retrieve                                                                *)
(***************************************************************************)
\* diff = abs(p1 - p2); diff = min(diff, 2 * math.pi - diff)
PhaseDiff(p1, p2) == Min(Abs(p1 - p2), 2 * Pi - Abs(p1 - p2))

\* sum(1 - d / math.pi for d in phase_diffs) / len(phase_diffs), over zip(...)
PhaseScore(pattern, query_phase) ==
    LET n == Min(Len(pattern.phase_spectrum), Len(query_phase))
    IN Sum([k \in 1..n |->
              Scale - (PhaseDiff(pattern.phase_spectrum[k], query_phase[k]) * Scale) \div Pi])
       \div n

\* numerator / (denom_p * denom_q) if denom_p * denom_q > 0 else 0
AmpScore(pattern, query_amp) ==
    LET p == pattern.amplitude_spectrum
        q == query_amp
        n == Min(Len(p), Len(q))
        mean_p == Sum(p) \div Len(p)
        mean_q == Sum(q) \div Len(q)
        numerator == Sum([k \in 1..n |-> ((p[k] - mean_p) * (q[k] - mean_q)) \div Scale])
        denom_p == sqrt(Sum([k \in 1..Len(p) |->
                               ((p[k] - mean_p) * (p[k] - mean_p)) \div Scale]) * Scale)
        denom_q == sqrt(Sum([k \in 1..Len(q) |->
                               ((q[k] - mean_q) * (q[k] - mean_q)) \div Scale]) * Scale)
        denom == (denom_p * denom_q) \div Scale
    IN IF denom > 0 THEN (numerator * Scale) \div denom ELSE 0

\* (mutant) the resonance without the coherence factor
ResonanceUnscaled(pattern, query_phase, query_amp) ==
    (PhaseScore(pattern, query_phase) + AmpScore(pattern, query_amp)) \div 2

\* resonance = (phase_score + amp_score) / 2 * pattern.coherence
Resonance(pattern, query_phase, query_amp) ==
    (((PhaseScore(pattern, query_phase) + AmpScore(pattern, query_amp)) \div 2)
        * pattern.coherence) \div Scale

\* the loop over self.patterns.items(): (id, resonance) of every pattern that
\* meets the threshold, in the dict's order
\* (mutant) the filter upside down: keeps the scores at or below the threshold
KeepBelow(id, resonance, threshold) ==
    IF resonance <= threshold THEN <<[id |-> id, score |-> resonance]>> ELSE <<>>

\* if resonance >= threshold: resonances.append((pattern_id, resonance))
Keep(id, resonance, threshold) ==
    IF resonance >= threshold THEN <<[id |-> id, score |-> resonance]>> ELSE <<>>

RECURSIVE Resonances(_, _, _, _)
Resonances(pats, query_phase, query_amp, threshold) ==
    IF pats = <<>> THEN <<>>
    ELSE Keep(Head(pats).id, Resonance(Head(pats), query_phase, query_amp), threshold)
         \o Resonances(Tail(pats), query_phase, query_amp, threshold)

\* (mutant) the sort by score ascending, as heapq.nsmallest would give
RECURSIVE InsertLowestScoreFirst(_, _)
InsertLowestScoreFirst(sorted, e) ==
    IF sorted = <<>> THEN <<e>>
    ELSE IF Head(sorted).score <= e.score
         THEN <<Head(sorted)>> \o InsertLowestScoreFirst(Tail(sorted), e)
         ELSE <<e>> \o sorted

\* heapq.nlargest(n, iterable, key) is sorted(iterable, key=key, reverse=True)[:n]:
\* a stable sort, entries of equal score keep the order of the iterable
RECURSIVE InsertByScore(_, _)
InsertByScore(sorted, e) ==
    IF sorted = <<>> THEN <<e>>
    ELSE IF Head(sorted).score >= e.score
         THEN <<Head(sorted)>> \o InsertByScore(Tail(sorted), e)
         ELSE <<e>> \o sorted

RECURSIVE SortByScore(_)
SortByScore(entries) ==
    IF entries = <<>> THEN <<>>
    ELSE InsertByScore(SortByScore(SubSeq(entries, 1, Len(entries) - 1)),
                       entries[Len(entries)])

\* (mutant) a slice one entry too long
nlargest_one_more(n, entries) ==
    SubSeq(SortByScore(entries), 1, Min(n + 1, Len(entries)))

nlargest(n, entries) == SubSeq(SortByScore(entries), 1, Min(n, Len(entries)))

\* The outcome of retrieve(query, top_k, threshold): raised is the exception of
\* _dft on the query's signal; an empty store answers [] before any transform.
RetrieveSpectrum(pats, spectrum, top_k, threshold) ==
    IF spectrum.raised THEN [raised |-> TRUE, result |-> <<>>]
    ELSE [raised |-> FALSE,
          result |-> nlargest(top_k, Resonances(pats, spectrum.phase,
                                                spectrum.amplitude, threshold))]

retrieve(pats, dims, query, top_k, threshold) ==
    IF pats = <<>> THEN [raised |-> FALSE, result |-> <<>>]
    ELSE RetrieveSpectrum(pats, dft(text_to_wave(query, dims)), top_k, threshold)

(***************************************************************************)
(* The texts, metadata and arguments of the model                          *)
(***************************************************************************)
\* '', 'a' and '~a': an all-zero signal, a single byte, two bytes
Contents == {<<>>, <<97>>, <<126, 97>>}

Metadatas == {None, [tags |-> <<"t1">>], [tags |-> <<"t1", "t2">>, note |-> "n"]}

\* '', 'a', e-acute (two bytes in UTF-8) and '~a'
Queries == {<<>>, <<97>>, <<233>>, <<126, 97>>}

MaxTopK == 2

\* thresholds 0.3 (the default) and 0.6
Thresholds == {(3 * Scale) \div 10, (6 * Scale) \div 10}

\* Knowledge loaded before the first request, as create_app does with learn():
\* nine texts, in this order
Knowledge ==
    << [content |-> <<33, 97>>,  metadata |-> None],
       [content |-> <<97, 98>>,  metadata |-> [tags |-> <<"t1">>]],
       [content |-> <<97, 65>>,  metadata |-> None],
       [content |-> <<65, 97>>,  metadata |-> None],
       [content |-> <<126, 65>>, metadata |-> None],
       [content |-> <<65, 33>>,  metadata |-> None],
       [content |-> <<126, 33>>, metadata |-> None],
       [content |-> <<33>>,      metadata |-> None],
       [content |-> <<97, 33>>,  metadata |-> None] >>

\* The memories the model starts from: dimensions, max_patterns and the
\* knowledge preloaded into the fresh memory
Configurations ==
    { [dimensions |-> 1, max_patterns |-> 1, preload |-> <<>>],
      [dimensions |-> 2, max_patterns |-> 1, preload |-> <<>>],
      [dimensions |-> 2, max_patterns |-> 9, preload |-> Knowledge] }

\* a tag list longer than this is not grown further
MaxTagList == 2

(***************************************************************************)
(* The state machine                                                       *)
(***************************************************************************)
\* HolographicMemory.__init__: no patterns, no tags
EmptyMemory == [patterns |-> <<>>, index |-> [t \in {} |-> <<>>]]

RECURSIVE Preloaded(_, _, _, _)
Preloaded(mem, dims, cap, facts) ==
    IF facts = <<>> THEN mem
    ELSE Preloaded(store(mem, dims, cap, Head(facts).content, Head(facts).metadata).mem,
                   dims, cap, Tail(facts))

\* SwarmIntelligence.__init__: no specialists, no conversations
NoSwarm == [specialists |-> <<>>, conversation_history |-> <<>>]

\* FractalReasoner.__init__ with its defaults, and no reason() in progress:
\* nodes is the tree being built, stack the frames of _recursive_think
NoReasoner == [max_depth |-> 5, min_confidence |-> (7 * Scale) \div 10,
               specialists |-> <<>>, thought_history |-> <<>>,
               nodes |-> <<>>, stack |-> <<>>]

\* a thread that is in no call on the memory
Idle == [pc |-> "idle"]

\* stores counts the calls of store the writer has begun
NoThreads == [writer |-> Idle, reader |-> Idle, stores |-> 0]

NoCall == [op |-> "init", text |-> <<>>, metadata |-> None, top_k |-> 0,
           threshold |-> 0, raised |-> FALSE, id |-> "", pruned |-> FALSE,
           evicted |-> <<>>, result |-> <<>>, returned |-> None,
           inverse |-> FALSE, stats |-> EmptyDict, file |-> EmptyDict,
           signal |-> <<>>, pattern_a |-> "", pattern_b |-> "", strength |-> 0,
           start_pattern |-> "", depth |-> 0, question |-> "", max_rounds |-> 0,
           error |-> ""]

\* AssociativeWeb.__init__: no associations
NoAssociations == [id \in {} |-> <<>>]

Init ==
    \E c \in Configurations :
        LET mem == Preloaded(EmptyMemory, c.dimensions, c.max_patterns, c.preload)
        IN /\ dimensions = c.dimensions
           /\ max_patterns = c.max_patterns
           /\ patterns = mem.patterns
           /\ index = mem.index
           /\ query_count = 0
           /\ associations = NoAssociations
           /\ threads = NoThreads
           /\ reasoner = NoReasoner
           /\ swarm = NoSwarm
           /\ last = NoCall

Store(content, metadata) ==
    \E out \in {store([patterns |-> patterns, index |-> index],
                     dimensions, max_patterns, content, metadata)} :
       /\ \A t \in DOMAIN out.mem.index : Len(out.mem.index[t]) <= MaxTagList
       /\ patterns' = out.mem.patterns
       /\ index' = out.mem.index
       /\ last' = [NoCall EXCEPT !.op = "store", !.text = content,
                                 !.metadata = metadata, !.raised = out.raised,
                                 !.id = out.id, !.pruned = out.pruned,
                                 !.evicted = out.evicted]
       /\ UNCHANGED <<dimensions, max_patterns, query_count, associations,
                    threads, reasoner, swarm>>

Retrieve(query, top_k, threshold) ==
    \E out \in {retrieve(patterns, dimensions, query, top_k, threshold)} :
       /\ last' = [NoCall EXCEPT !.op = "retrieve", !.text = query,
                                 !.top_k = top_k, !.threshold = threshold,
                                 !.raised = out.raised, !.result = out.result]
       /\ UNCHANGED <<dimensions, max_patterns, patterns, index, query_count,
                       associations, threads, reasoner, swarm>>

Next ==
    \/ \E content \in Contents, metadata \in Metadatas : Store(content, metadata)
    \/ \E query \in Queries, top_k \in 0..MaxTopK, threshold \in Thresholds :
           Retrieve(query, top_k, threshold)

Spec == Init /\ [][Next]_vars

(***************************************************************************)
(* _inverse_dft                                                            *)
(***************************************************************************)
\* math.cos / math.sin of a stored phase; the phases of the model are the
\* values of atan2 above: 0, pi, -pi, pi/2 and -pi/2
cos_phase(ph) == CASE ph = 0 -> Scale
                   [] Abs(ph) = Pi -> -Scale
                   [] OTHER -> 0

sin_phase(ph) == CASE ph = Pi \div 2 -> Scale
                   [] ph = -(Pi \div 2) -> -Scale
                   [] OTHER -> 0

\* real * math.cos(angle) - imag * math.sin(angle) with angle = 2*pi*k*t/n,
\* the opposite of the angle of cos(k, t, n) and sin(k, t, n)
inverse_term(amp, ph, k, t, n) ==
    (((amp * cos_phase(ph)) \div Scale) * cos(k, t, n)) \div Scale
    + (((amp * sin_phase(ph)) \div Scale) * sin(k, t, n)) \div Scale

inverse_dft(phase, amplitude) ==
    [t \in 1..Len(phase) |->
        Sum([k \in 1..Len(phase) |->
               inverse_term(amplitude[k], phase[k], k - 1, t - 1, Len(phase))])
        \div Len(phase)]

(***************************************************************************)
(* reconstruct                                                             *)
(***************************************************************************)
\* a str value: its code points
Str(text) == [str |-> text]

\* "[Pattern degraded]"
Degraded == <<91, 80, 97, 116, 116, 101, 114, 110, 32,
              100, 101, 103, 114, 97, 100, 101, 100, 93>>

\* int(s * 255): int() truncates toward zero
int255(s) == IF s >= 0 THEN (s * 255) \div Scale ELSE -(((-s) * 255) \div Scale)

\* bytes.decode('utf-8', errors='ignore') for sequences of one or two bytes:
\* an ASCII byte is its character, a lead byte C2..DF with its continuation
\* byte is one character, any other byte is dropped
RECURSIVE decode(_)
decode(b) ==
    IF b = <<>> THEN <<>>
    ELSE IF b[1] < 128 THEN <<b[1]>> \o decode(Tail(b))
    ELSE IF b[1] \in 194..223 /\ Len(b) >= 2 /\ b[2] \in 128..191
         THEN <<(b[1] - 192) * 64 + (b[2] - 128)>> \o decode(Tail(Tail(b)))
         ELSE decode(Tail(b))

\* the characters str.strip() removes, among the code points below 2048
Whitespace == (9..13) \cup (28..32) \cup {133, 160}

RECURSIVE lstrip(_)
lstrip(text) ==
    IF text # <<>> /\ Head(text) \in Whitespace THEN lstrip(Tail(text)) ELSE text

RECURSIVE rstrip(_)
rstrip(text) ==
    IF text # <<>> /\ text[Len(text)] \in Whitespace
    THEN rstrip(SubSeq(text, 1, Len(text) - 1)) ELSE text

\* text.replace('\x00', '').strip()
Cleaned(text) == rstrip(lstrip(SelectSeq(text, LAMBDA c : c # 0)))

\* bytes(...) raises ValueError for a value outside range(0, 256), outside
\* the try block; otherwise decode, clean and return
ToText(ints) ==
    IF \E t \in 1..Len(ints) : ints[t] < 0 \/ ints[t] > 255
    THEN [raised |-> TRUE, returned |-> None, inverse |-> TRUE]
    ELSE [raised |-> FALSE, returned |-> Str(Cleaned(decode(ints))), inverse |-> TRUE]

\* bytes(int(s * 255) for s in signal)
FromSignal(signal) == ToText([t \in 1..Len(signal) |-> int255(signal[t])])

\* (mutant) reconstruction without the fidelity gate
ReconstructUngated(pattern) ==
    FromSignal(inverse_dft(pattern.phase_spectrum, pattern.amplitude_spectrum))

\* if pattern.coherence < 0.5: return "[Pattern degraded]"
ReconstructPattern(pattern) ==
    IF pattern.coherence < Scale \div 2
    THEN [raised |-> FALSE, returned |-> Str(Degraded), inverse |-> FALSE]
    ELSE FromSignal(inverse_dft(pattern.phase_spectrum, pattern.amplitude_spectrum))

\* self.patterns[pattern_id]
Lookup(pats, id) == pats[CHOOSE i \in 1..Len(pats) : pats[i].id = id]

\* (mutant) a lookup that answers the degraded sentinel for an absent id
reconstruct_absent_degraded(pats, id) ==
    IF id \notin Ids(pats)
    THEN [raised |-> FALSE, returned |-> Str(Degraded), inverse |-> FALSE]
    ELSE ReconstructPattern(Lookup(pats, id))

\* The outcome of reconstruct(pattern_id): raised, the value returned (None or
\* a str) and whether _inverse_dft ran
reconstruct(pats, id) ==
    IF id \notin Ids(pats)
    THEN [raised |-> FALSE, returned |-> None, inverse |-> FALSE]
    ELSE ReconstructPattern(Lookup(pats, id))

(***************************************************************************)
(* get_stats                                                               *)
(***************************************************************************)
RECURSIVE Coherences(_)
Coherences(pats) ==
    IF pats = <<>> THEN <<>> ELSE <<Head(pats).coherence>> \o Coherences(Tail(pats))

\* The dict get_stats returns
get_stats(pats, dims) ==
    IF pats = <<>> THEN [patterns |-> 0, avg_coherence |-> 0]
    ELSE [patterns |-> Len(pats),
          avg_coherence |-> Sum(Coherences(pats)) \div Len(pats),
          size_kb |-> (Len(pats) * dims * 8 * Scale) \div 1024]


(***************************************************************************)
(* Prometheus.load_state                                                   *)
(***************************************************************************)
\* state.get("memory_patterns", {}).items(), in the order of the document
FilePatterns(file) ==
    IF "memory_patterns" \in DOMAIN file THEN file.memory_patterns ELSE <<>>

\* MemoryPattern(id=pid, phase_spectrum=data["phase"],
\*               amplitude_spectrum=data["amplitude"],
\*               metadata=data.get("metadata", {}),
\*               coherence=data.get("coherence", 0.5))
LoadedPattern(pid, data) ==
    [id |-> pid,
     phase_spectrum |-> data.phase,
     amplitude_spectrum |-> data.amplitude,
     metadata |-> IF "metadata" \in DOMAIN data THEN data.metadata ELSE EmptyDict,
     coherence |-> IF "coherence" \in DOMAIN data THEN data.coherence ELSE Scale \div 2]

\* for pid, data in ...: self.memory.patterns[pid] = pattern
RECURSIVE MergePatterns(_, _)
MergePatterns(pats, entries) ==
    IF entries = <<>> THEN pats
    ELSE MergePatterns(DictSet(pats, LoadedPattern(Head(entries).pid, Head(entries).data)),
                       Tail(entries))

\* (mutant) a load that replaces the pattern map by the document
load_state_replacing(pats, file) ==
    [patterns |-> MergePatterns(<<>>, FilePatterns(file)),
     query_count |-> IF "query_count" \in DOMAIN file THEN file.query_count ELSE 0]

\* The pattern map and the query count after load_state of the document file
load_state(pats, file) ==
    [patterns |-> MergePatterns(pats, FilePatterns(file)),
     query_count |-> IF "query_count" \in DOMAIN file THEN file.query_count ELSE 0]

(***************************************************************************)
(* Prometheus.save_state.  The document is what json.dump writes and       *)
(* json.load reads back: a dict of pid -> data in the order of the pattern *)
(* map, the spectra as lists of numbers, and the query count.              *)
(***************************************************************************)
\* {"phase": p.phase_spectrum, "amplitude": p.amplitude_spectrum,
\*  "coherence": p.coherence, "metadata": p.metadata}
SavedPattern(p) ==
    [pid |-> p.id,
     data |-> [phase |-> p.phase_spectrum, amplitude |-> p.amplitude_spectrum,
               coherence |-> p.coherence, metadata |-> p.metadata]]

\* (mutant) the entry written without its coherence
SavedPatternWithoutCoherence(p) ==
    [pid |-> p.id,
     data |-> [phase |-> p.phase_spectrum, amplitude |-> p.amplitude_spectrum,
               metadata |-> p.metadata]]

\* (mutant) the document written without the coherences
save_state_without_coherence(pats, count) ==
    [memory_patterns |-> [i \in 1..Len(pats) |-> SavedPatternWithoutCoherence(pats[i])],
     query_count |-> count]

\* The document save_state writes
save_state(pats, count) ==
    [memory_patterns |-> [i \in 1..Len(pats) |-> SavedPattern(pats[i])],
     query_count |-> count]

(***************************************************************************)
(* The documents, texts and ids of the calls on a loaded memory            *)
(***************************************************************************)
\* a saved document whose pattern of 'a' has its coherence forced to 0.4
Faded ==
    [memory_patterns |->
        << [pid |-> pattern_id(<<97>>),
            data |-> [phase |-> <<0, 0>>, amplitude |-> <<Scale, Scale>>,
                      coherence |-> (4 * Scale) \div 10,
                      metadata |-> EmptyDict]] >>,
     query_count |-> 3]

\* a document without coherence, metadata and query_count, whose spectrum is
\* the transform of a negative signal: amplitude 1 at phase pi
Reversed ==
    [memory_patterns |->
        << [pid |-> pattern_id(<<110>>),
            data |-> [phase |-> <<Pi, 0>>, amplitude |-> <<Scale, 0>>]] >>]

Files == {Faded, Reversed}

\* 'a' and 'hi'
Texts == {<<97>>, <<104, 105>>}

\* the ids of 'a', 'hi', 'n', 'ab' and '~'
PatternIds == {pattern_id(<<97>>), pattern_id(<<104, 105>>), pattern_id(<<110>>),
               pattern_id(<<97, 98>>), pattern_id(<<126>>)}

(***************************************************************************)
(* The calls on a loaded memory                                            *)
(***************************************************************************)
LoadState(file) ==
    \E out \in {load_state(patterns, file)} :
       /\ patterns' = out.patterns
       /\ query_count' = out.query_count
       /\ last' = [NoCall EXCEPT !.op = "load_state", !.file = file]
       /\ UNCHANGED <<dimensions, max_patterns, index, associations,
                    threads, reasoner, swarm>>

Reconstruct(id) ==
    \E out \in {reconstruct(patterns, id)} :
       /\ last' = [NoCall EXCEPT !.op = "reconstruct", !.id = id,
                                 !.raised = out.raised, !.returned = out.returned,
                                 !.inverse = out.inverse]
       /\ UNCHANGED <<dimensions, max_patterns, patterns, index, query_count,
                       associations, threads, reasoner, swarm>>

GetStats ==
    /\ last' = [NoCall EXCEPT !.op = "get_stats",
                              !.stats = get_stats(patterns, dimensions)]
    /\ UNCHANGED <<dimensions, max_patterns, patterns, index, query_count,
                    associations, threads, reasoner, swarm>>

SaveState ==
    /\ last' = [NoCall EXCEPT !.op = "save_state",
                              !.file = save_state(patterns, query_count)]
    /\ UNCHANGED <<dimensions, max_patterns, patterns, index, query_count,
                    associations, threads, reasoner, swarm>>

NextRecall ==
    \/ \E content \in Texts : Store(content, None)
    \/ \E file \in Files : LoadState(file)
    \/ SaveState
    \/ \E id \in PatternIds : Reconstruct(id)
    \/ GetStats

SpecRecall == Init /\ [][NextRecall]_vars

(***************************************************************************)
(* The encoder on its own: _text_to_wave of a text in a memory of any of   *)
(* the dimensions 1..MaxDimensions                                         *)
(***************************************************************************)
MaxDimensions == 4

MaxTextLen == 3

\* NUL, 'a', '~' and e-acute (two bytes in UTF-8)
Alphabet == {0, 97, 126, 233}

RECURSIVE TextsOfLen(_)
TextsOfLen(n) ==
    IF n = 0 THEN {<<>>}
    ELSE {Append(t, c) : t \in TextsOfLen(n - 1), c \in Alphabet}

EncoderTexts == UNION {TextsOfLen(n) : n \in 0..MaxTextLen}

InitEncoder ==
    /\ dimensions \in 1..MaxDimensions
    /\ max_patterns = 1
    /\ patterns = <<>>
    /\ index = EmptyMemory.index
    /\ query_count = 0
    /\ associations = NoAssociations
    /\ threads = NoThreads
    /\ reasoner = NoReasoner
    /\ swarm = NoSwarm
    /\ last = NoCall

TextToWave(text) ==
    /\ last' = [NoCall EXCEPT !.op = "_text_to_wave", !.text = text,
                              !.signal = text_to_wave(text, dimensions)]
    /\ UNCHANGED <<dimensions, max_patterns, patterns, index, query_count,
                    associations, threads, reasoner, swarm>>

NextEncoder == \E text \in EncoderTexts : TextToWave(text)

SpecEncoder == InitEncoder /\ [][NextEncoder]_vars

(***************************************************************************)
(* AssociativeWeb.link                                                     *)
(***************************************************************************)
\* if pattern_a not in self.associations: self.associations[pattern_a] = []
\* self.associations[pattern_a].append((pattern_b, strength))
AppendAssociation(assoc, from, to, strength) ==
    IF from \in DOMAIN assoc
    THEN [assoc EXCEPT ![from] = Append(@, [peer |-> to, strength |-> strength])]
    ELSE [id \in DOMAIN assoc \cup {from} |->
             IF id = from THEN <<[peer |-> to, strength |-> strength]>> ELSE assoc[id]]

\* (mutant) the association in one direction only
link_one_way(assoc, pattern_a, pattern_b, strength) ==
    AppendAssociation(assoc, pattern_a, pattern_b, strength)

\* The associations after link(pattern_a, pattern_b, strength)
link(assoc, pattern_a, pattern_b, strength) ==
    AppendAssociation(AppendAssociation(assoc, pattern_a, pattern_b, strength),
                      pattern_b, pattern_a, strength)

(***************************************************************************)
(* AssociativeWeb.spread_activation.  The dicts activated, current_level   *)
(* and next_level are sequences of (id, activation) in insertion order.    *)
(***************************************************************************)
\* activated[id]
ActivationOf(activated, id) == Lookup(activated, id).activation

\* activation * strength * 0.8
Decay(activation, strength) == (((activation * strength) \div Scale) * 8) \div 10

\* (mutant) the candidate recorded without comparing: the last one wins
ImproveAlways(levels, assoc_id, new_activation) ==
    [activated |-> DictSet(levels.activated,
                           [id |-> assoc_id, activation |-> new_activation]),
     next_level |-> DictSet(levels.next_level,
                            [id |-> assoc_id, activation |-> new_activation])]

\* if assoc_id not in activated or activated[assoc_id] < new_activation:
\*     activated[assoc_id] = new_activation; next_level[assoc_id] = new_activation
Improve(levels, assoc_id, new_activation) ==
    IF \/ assoc_id \notin Ids(levels.activated)
       \/ ActivationOf(levels.activated, assoc_id) < new_activation
    THEN [activated |-> DictSet(levels.activated,
                                [id |-> assoc_id, activation |-> new_activation]),
          next_level |-> DictSet(levels.next_level,
                                 [id |-> assoc_id, activation |-> new_activation])]
    ELSE levels

\* for assoc_id, strength in self.associations[pattern_id]
RECURSIVE SpreadFrom(_, _, _)
SpreadFrom(levels, activation, edges) ==
    IF edges = <<>> THEN levels
    ELSE SpreadFrom(Improve(levels, Head(edges).peer,
                            Decay(activation, Head(edges).strength)),
                    activation, Tail(edges))

\* for pattern_id, activation in current_level.items()
RECURSIVE SpreadLevel(_, _, _)
SpreadLevel(levels, current_level, assoc) ==
    IF current_level = <<>> THEN levels
    ELSE SpreadLevel(IF Head(current_level).id \in DOMAIN assoc
                     THEN SpreadFrom(levels, Head(current_level).activation,
                                     assoc[Head(current_level).id])
                     ELSE levels,
                     Tail(current_level), assoc)

\* for _ in range(depth): a hop over current_level, which is the next_level
\* of the hop before; then current_level = next_level
RECURSIVE Hops(_, _, _)
Hops(levels, assoc, depth) ==
    IF depth <= 0 THEN levels.activated
    ELSE Hops(SpreadLevel([activated |-> levels.activated, next_level |-> <<>>],
                          levels.next_level, assoc),
              assoc, depth - 1)

\* (mutant) the sort ascending by activation
RECURSIVE InsertLowestActivationFirst(_, _)
InsertLowestActivationFirst(sorted, e) ==
    IF sorted = <<>> THEN <<e>>
    ELSE IF Head(sorted).activation <= e.activation
         THEN <<Head(sorted)>> \o InsertLowestActivationFirst(Tail(sorted), e)
         ELSE <<e>> \o sorted

\* sorted(activated.items(), key=lambda x: x[1], reverse=True): stable, equal
\* activations keep the order of the dict
RECURSIVE InsertByActivation(_, _)
InsertByActivation(sorted, e) ==
    IF sorted = <<>> THEN <<e>>
    ELSE IF Head(sorted).activation >= e.activation
         THEN <<Head(sorted)>> \o InsertByActivation(Tail(sorted), e)
         ELSE <<e>> \o sorted

RECURSIVE SortByActivation(_)
SortByActivation(entries) ==
    IF entries = <<>> THEN <<>>
    ELSE InsertByActivation(SortByActivation(SubSeq(entries, 1, Len(entries) - 1)),
                            entries[Len(entries)])

\* The list spread_activation(start_pattern, depth) returns
spread_activation(assoc, start_pattern, depth) ==
    SortByActivation(
        Hops([activated |-> <<[id |-> start_pattern, activation |-> Scale]>>,
              next_level |-> <<[id |-> start_pattern, activation |-> Scale]>>],
             assoc, depth))

(***************************************************************************)
(* The association graph on its own                                        *)
(***************************************************************************)
Nodes == {"A", "B", "C"}

\* strengths 0.5, 1.0 (the default) and 2.0
Strengths == {Scale \div 2, Scale, 2 * Scale}

MaxLinks == 2

MaxDepth == 3

\* the number of link calls made so far: half the number of entries
RECURSIVE Entries(_, _)
Entries(assoc, ids) ==
    IF ids = {} THEN 0
    ELSE Len(assoc[CHOOSE id \in ids : TRUE])
         + Entries(assoc, ids \ {CHOOSE id \in ids : TRUE})

Links(assoc) == Entries(assoc, DOMAIN assoc) \div 2

InitWeb ==
    /\ dimensions = 2
    /\ max_patterns = 1
    /\ patterns = <<>>
    /\ index = EmptyMemory.index
    /\ query_count = 0
    /\ associations = NoAssociations
    /\ threads = NoThreads
    /\ reasoner = NoReasoner
    /\ swarm = NoSwarm
    /\ last = NoCall

Link(pattern_a, pattern_b, strength) ==
    /\ Links(associations) < MaxLinks
    /\ associations' = link(associations, pattern_a, pattern_b, strength)
    /\ last' = [NoCall EXCEPT !.op = "link", !.pattern_a = pattern_a,
                              !.pattern_b = pattern_b, !.strength = strength]
    /\ UNCHANGED <<dimensions, max_patterns, patterns, index, query_count,
                    threads, reasoner, swarm>>

SpreadActivation(start_pattern, depth) ==
    /\ last' = [NoCall EXCEPT !.op = "spread_activation",
                              !.start_pattern = start_pattern, !.depth = depth,
                              !.result = spread_activation(associations,
                                                           start_pattern, depth)]
    /\ UNCHANGED <<dimensions, max_patterns, patterns, index, query_count,
                    associations, threads, reasoner, swarm>>

NextWeb ==
    \/ \E pattern_a \in Nodes, pattern_b \in Nodes, strength \in Strengths :
           Link(pattern_a, pattern_b, strength)
    \/ \E start_pattern \in Nodes, depth \in 0..MaxDepth :
           SpreadActivation(start_pattern, depth)

SpecWeb == InitWeb /\ [][NextWeb]_vars

(***************************************************************************)
(* Recall of stored contents: every query is a content that store accepts, *)
(* and the threshold is 0                                                  *)
(***************************************************************************)
\* 'a', '~a' and '~!'
RecallTexts == {<<97>>, <<126, 97>>, <<126, 33>>}

NextSelfQuery ==
    \/ \E content \in RecallTexts : Store(content, None)
    \/ \E query \in RecallTexts, top_k \in 1..MaxTopK : Retrieve(query, top_k, 0)

SpecSelfQuery == Init /\ [][NextSelfQuery]_vars

(***************************************************************************)
(* SwarmIntelligence.  A response is the sequence of its words; every      *)
(* response of the model is shorter than 100 characters, so the grouping   *)
(* key response[:100] is the response.                                     *)
(***************************************************************************)
\* the number of keywords of relevance_map[specialist_type] that occur in
\* query.lower(), for the questions of the model
KeywordMatches(specialist_type, question) ==
    CASE specialist_type = "code" /\ question = "write python code" -> 2
      [] specialist_type = "math" /\ question = "solve this math" -> 2
      [] OTHER -> 0

\* Specialist._relevance: min(1.0, 0.3 + matches * 0.2), 0.5 for a generalist
relevance(specialist_type, question) ==
    IF specialist_type = "general" THEN Scale \div 2
    ELSE Min(Scale, (3 * Scale) \div 10
                    + KeywordMatches(specialist_type, question) * ((2 * Scale) \div 10))

\* f"[Error: {e}]" for a response_fn that raises
ErrorResponse == <<"[Error:", "failed]">>

\* Specialist.respond: (response, capability_score * relevance), or the
\* error text with confidence 0.1 when response_fn raises
respond(spec, question) ==
    IF spec.fails
    THEN [response |-> ErrorResponse, confidence |-> Scale \div 10]
    ELSE [response |-> spec.response,
          confidence |-> (spec.capability_score
                          * relevance(spec.specialist_type, question)) \div Scale]

\* _gather_votes: one Vote per specialist, in the order of the dict
gather_votes(specialists, question) ==
    [i \in 1..Len(specialists) |->
        [specialist_id |-> specialists[i].id,
         response |-> respond(specialists[i], question).response,
         confidence |-> respond(specialists[i], question).confidence,
         reasoning |-> specialists[i].specialist_type]]

\* str.lower on a word
lower(word) ==
    CASE word = "[Error:" -> "[error:"
      [] word = "Use" -> "use"
      [] OTHER -> word

\* set(a.lower().split())
Words(response) == {lower(response[i]) : i \in 1..Len(response)}

\* _response_similarity(a, b) > 0.7
Agree(a, b) ==
    /\ Words(a) # {}
    /\ Words(b) # {}
    /\ 10 * Cardinality(Words(a) \cap Words(b)) > 7 * Cardinality(Words(a) \cup Words(b))

\* _response_similarity(a, b) < 0.3: 0.0 when either has no word
Disagree(a, b) ==
    \/ Words(a) = {}
    \/ Words(b) = {}
    \/ 10 * Cardinality(Words(a) \cap Words(b)) < 3 * Cardinality(Words(a) \cup Words(b))

\* max(votes, key=lambda v: v.confidence): the first of the most confident
MostConfident(votes) ==
    CHOOSE i \in 1..Len(votes) :
        /\ \A j \in 1..Len(votes) : votes[j].confidence <= votes[i].confidence
        /\ \A j \in 1..(i - 1) : votes[j].confidence < votes[i].confidence

\* the confidence of vote after it has seen best_vote
Revised(vote, best_vote) ==
    IF Agree(vote.response, best_vote.response)
    THEN Min(Scale, (vote.confidence * 11) \div 10)
    ELSE IF Disagree(vote.response, best_vote.response)
         THEN IF vote.confidence > best_vote.confidence
              THEN (vote.confidence * 95) \div 100
              ELSE (vote.confidence * 8) \div 10
         ELSE vote.confidence

\* for vote in votes: the votes are revised in place, one after the other,
\* so the votes after best_vote see its revised confidence
RECURSIVE ReviseFrom(_, _, _)
ReviseFrom(votes, best, i) ==
    IF i > Len(votes) THEN votes
    ELSE ReviseFrom([votes EXCEPT ![i].confidence = Revised(votes[i], votes[best])],
                    best, i + 1)

\* _discussion_round: max() of an empty list raises ValueError
discussion_round(votes) ==
    IF votes = <<>> THEN [raised |-> TRUE, votes |-> votes]
    ELSE [raised |-> FALSE, votes |-> ReviseFrom(votes, MostConfident(votes), 1)]

\* for round_num in range(max_rounds): current_votes = _discussion_round(...)
RECURSIVE Rounds(_, _)
Rounds(current, max_rounds) ==
    IF current.raised \/ max_rounds <= 0 THEN current
    ELSE Rounds(discussion_round(current.votes), max_rounds - 1)

\* the keys of response_groups, in the order of their first vote
RECURSIVE GroupKeys(_)
GroupKeys(votes) ==
    IF votes = <<>> THEN <<>>
    ELSE LET keys == GroupKeys(SubSeq(votes, 1, Len(votes) - 1))
         IN IF \E i \in 1..Len(keys) : keys[i] = votes[Len(votes)].response
            THEN keys
            ELSE Append(keys, votes[Len(votes)].response)

\* response_groups[key]
GroupOf(votes, key) == SelectSeq(votes, LAMBDA v : v.response = key)

\* sum(self.specialists[v.specialist_id].vote_weight for v in group
\*     if v.specialist_id in self.specialists)
RECURSIVE Weights(_, _)
Weights(group, specialists) ==
    IF group = <<>> THEN 0
    ELSE (IF Head(group).specialist_id \in Ids(specialists)
          THEN Lookup(specialists, Head(group).specialist_id).vote_weight
          ELSE 0)
         + Weights(Tail(group), specialists)

\* total_confidence * specialist_weights
GroupScore(group, specialists) ==
    (Sum([i \in 1..Len(group) |-> group[i].confidence]) * Weights(group, specialists))
        \div Scale

\* for key, group in response_groups.items(): if score > best_score: ...
RECURSIVE BestGroup(_, _, _, _)
BestGroup(best, votes, keys, specialists) ==
    IF keys = <<>> THEN best
    ELSE BestGroup(
             IF GroupScore(GroupOf(votes, Head(keys)), specialists) > best.score
             THEN [score |-> GroupScore(GroupOf(votes, Head(keys)), specialists),
                   group |-> GroupOf(votes, Head(keys))]
             ELSE best,
             votes, Tail(keys), specialists)

NoResponse == [response |-> <<"[No", "response]">>, confidence |-> 0]

NoConsensus == [response |-> <<"[No", "consensus]">>, confidence |-> 0]

\* the dict for the most confident vote of the winning group
Winner(best_group, votes) ==
    [response |-> best_group[MostConfident(best_group)].response,
     confidence |-> best_group[MostConfident(best_group)].confidence,
     supporters |-> Len(best_group),
     total_participants |-> Len(votes)]

\* _select_consensus
select_consensus(votes, specialists) ==
    IF votes = <<>> THEN NoResponse
    ELSE \* best_group = None, best_score = 0
         LET best == BestGroup([score |-> 0, group |-> <<>>], votes,
                               GroupKeys(votes), specialists)
         IN IF best.group # <<>> THEN Winner(best.group, votes) ELSE NoConsensus

\* The dict query builds from the votes of the last round
QueryResult(question, max_rounds, votes, specialists) ==
    [question |-> question,
     consensus |-> select_consensus(votes, specialists),
     all_votes |-> votes,
     rounds |-> max_rounds,
     participants |-> Len(specialists)]

\* SwarmIntelligence.query: whether it raised, the dict it returned and the
\* conversation_history afterwards
query(sw, question, max_rounds) ==
    LET current == Rounds([raised |-> FALSE,
                           votes |-> gather_votes(sw.specialists, question)],
                          max_rounds)
    IN IF current.raised
       THEN [raised |-> TRUE, returned |-> None,
             conversation_history |-> sw.conversation_history]
       ELSE [raised |-> FALSE,
             returned |-> QueryResult(question, max_rounds, current.votes,
                                      sw.specialists),
             conversation_history |->
                 Append(sw.conversation_history,
                        QueryResult(question, max_rounds, current.votes,
                                    sw.specialists))]

(***************************************************************************)
(* The swarm on its own                                                    *)
(***************************************************************************)
\* two specialists with the same answer, a generalist with a longer one,
\* and one whose response_fn raises
Specialists ==
    { [id |-> "code_1", specialist_type |-> "code", capability_score |-> (9 * Scale) \div 10,
       response |-> <<"Use", "a", "loop">>, fails |-> FALSE,
       vote_weight |-> (12 * Scale) \div 10],
      [id |-> "math_1", specialist_type |-> "math", capability_score |-> (85 * Scale) \div 100,
       response |-> <<"Use", "a", "loop">>, fails |-> FALSE,
       vote_weight |-> (11 * Scale) \div 10],
      [id |-> "general_1", specialist_type |-> "general", capability_score |-> (7 * Scale) \div 10,
       response |-> <<"use", "a", "loop", "twice">>, fails |-> FALSE,
       vote_weight |-> Scale],
      [id |-> "logic_1", specialist_type |-> "logic", capability_score |-> (8 * Scale) \div 10,
       response |-> <<>>, fails |-> TRUE, vote_weight |-> Scale] }

Questions == {"write python code", "solve this math"}

MaxRounds == 2

\* no query is made once conversation_history has this many entries
MaxConversations == 1

InitSwarm ==
    /\ dimensions = 2
    /\ max_patterns = 1
    /\ patterns = <<>>
    /\ index = EmptyMemory.index
    /\ query_count = 0
    /\ associations = NoAssociations
    /\ threads = NoThreads
    /\ reasoner = NoReasoner
    /\ swarm = NoSwarm
    /\ last = NoCall

\* register: self.specialists[specialist.id] = specialist
Register(specialist) ==
    /\ swarm' = [swarm EXCEPT !.specialists = DictSet(@, specialist)]
    /\ last' = [NoCall EXCEPT !.op = "register", !.id = specialist.id]
    /\ UNCHANGED <<dimensions, max_patterns, patterns, index, query_count,
                    associations, threads, reasoner>>

Query(question, max_rounds) ==
    /\ Len(swarm.conversation_history) < MaxConversations
    /\ \E out \in {query(swarm, question, max_rounds)} :
          /\ swarm' = [swarm EXCEPT !.conversation_history = out.conversation_history]
          /\ last' = [NoCall EXCEPT !.op = "query", !.question = question,
                                    !.max_rounds = max_rounds,
                                    !.raised = out.raised, !.returned = out.returned]
    /\ UNCHANGED <<dimensions, max_patterns, patterns, index, query_count,
                    associations, threads, reasoner>>

NextSwarm ==
    \/ \E specialist \in Specialists : Register(specialist)
    \/ \E question \in Questions, max_rounds \in 0..MaxRounds :
           Query(question, max_rounds)

SpecSwarm == InitSwarm /\ [][NextSwarm]_vars

(***************************************************************************)
(* FractalReasoner.  A content is the sequence of the texts that " | "     *)
(* joins; a node is a record with the index of its parent in the tree      *)
(* (0 for the root), and the sub_thoughts of a node are the nodes with     *)
(* that parent, in the order of the tree.  A node_id is the path of child  *)
(* numbers from the root: "root_2" is <<2>>.                               *)
(***************************************************************************)
\* len(text), for the texts of the model
Chars(text) ==
    CASE text = "What is 2+2?" -> 12
      [] text = "Please write the code that sorts a list of numbers in ascending order" -> 69
      [] text = "Explain how a hash table resolves collisions between different keys" -> 67
      [] text = "Compare arrays and linked lists for insertion at the front of a sequence" -> 72
      [] text = "Plan a three day trip through the mountains with two small children" -> 67
      [] text = "How would one plan a three day trip through the mountains with children?" -> 72
      [] text = "Analyze requirements and inputs/outputs" -> 39
      [] text = "Design algorithm structure" -> 26
      [] text = "Write the implementation" -> 24
      [] text = "Review and optimize" -> 19
      [] text = "Retrieve definition and core concept" -> 36
      [] text = "Find examples and analogies" -> 27
      [] text = "Structure the explanation" -> 25
      [] text = "Analyze first option" -> 20
      [] text = "Analyze second option" -> 21
      [] text = "Find similarities" -> 17
      [] text = "Find differences" -> 16
      [] text = "Summarize comparison" -> 20
      [] text = "Understand the problem" -> 22
      [] text = "Develop solution approach" -> 25
      [] text = "Formulate answer" -> 16
      [] text = "[No memory match]" -> 17

\* text.count('?')
QuestionMarks(text) ==
    CASE text = "What is 2+2?" -> 1
      [] text = "How would one plan a three day trip through the mountains with children?" -> 1
      [] OTHER -> 0

\* the words of the decomposition rules and of the specialist patterns that
\* occur in text.lower()
Keywords(text) ==
    CASE text = "What is 2+2?" -> {"what is"}
      [] text = "Please write the code that sorts a list of numbers in ascending order" -> {"write", "code"}
      [] text = "Explain how a hash table resolves collisions between different keys" -> {"explain"}
      [] text = "Compare arrays and linked lists for insertion at the front of a sequence" -> {"compare"}
      [] text = "Write the implementation" -> {"write"}
      [] text = "Retrieve definition and core concept" -> {"retrieve"}
      [] text = "Find differences" -> {"difference"}
      [] OTHER -> {}

RECURSIVE Length(_)
\* len(content)
Length(content) ==
    IF content = <<>> THEN 0
    ELSE IF Len(content) = 1 THEN Chars(content[1])
         ELSE Chars(content[1]) + 3 + Length(Tail(content))

\* content.count('?')
Marks(content) == Sum([i \in 1..Len(content) |-> QuestionMarks(content[i])])

\* word in content.lower()
Mentions(content, word) == \E i \in 1..Len(content) : word \in Keywords(content[i])

\* for pattern, _ in self.specialists.items(): if pattern in content.lower()
Specialised(specialists, content) ==
    \E i \in 1..Len(specialists) : Mentions(content, specialists[i])

\* _is_simple
is_simple(specialists, content) ==
    \/ Length(content) < 50
    \/ Marks(content) = 1 /\ Length(content) < 100
    \/ Specialised(specialists, content)

\* (mutant) the base case one level late
BaseCaseBeyond(r, node) ==
    node.depth > r.max_depth \/ is_simple(r.specialists, node.content)

\* node.depth >= self.max_depth or self._is_simple(node.content)
BaseCase(r, node) ==
    node.depth >= r.max_depth \/ is_simple(r.specialists, node.content)

\* ThoughtNode(node_id, thought_type, content, depth), confidence 1.0
ThoughtNode(node_id, thought_type, content, depth) ==
    [node_id |-> node_id, thought_type |-> thought_type, content |-> content,
     depth |-> depth, confidence |-> Scale, parent |-> 0]

\* the (thought_type, content) of the sub-problems of _decompose
SubProblems(content) ==
    IF Mentions(content, "write") /\ Mentions(content, "code")
    THEN << <<"analysis", "Analyze requirements and inputs/outputs">>,
            <<"analysis", "Design algorithm structure">>,
            <<"action", "Write the implementation">>,
            <<"analysis", "Review and optimize">> >>
    ELSE IF Mentions(content, "explain") \/ Mentions(content, "what is")
    THEN << <<"memory", "Retrieve definition and core concept">>,
            <<"analysis", "Find examples and analogies">>,
            <<"synthesis", "Structure the explanation">> >>
    ELSE IF Mentions(content, "compare") \/ Mentions(content, "difference")
    THEN << <<"analysis", "Analyze first option">>,
            <<"analysis", "Analyze second option">>,
            <<"analysis", "Find similarities">>,
            <<"analysis", "Find differences">>,
            <<"synthesis", "Summarize comparison">> >>
    ELSE << <<"analysis", "Understand the problem">>,
            <<"action", "Develop solution approach">>,
            <<"synthesis", "Formulate answer">> >>

\* _decompose: the sub-problem nodes, each at node.depth + 1
decompose(node) ==
    [i \in 1..Len(SubProblems(node.content)) |->
        ThoughtNode(Append(node.node_id, i), SubProblems(node.content)[i][1],
                    <<SubProblems(node.content)[i][2]>>, node.depth + 1)]

\* add_sub_thought: thought.depth = self.depth + 1; sub_thoughts.append(thought)
add_sub_thought(nodes, parent, thought) ==
    Append(nodes, [thought EXCEPT !.depth = nodes[parent].depth + 1,
                                  !.parent = parent])

\* node.sub_thoughts
SubThoughts(nodes, parent) == SelectSeq(nodes, LAMBDA n : n.parent = parent)

\* the text a specialist of the reasoner returns
SpecialistResult == <<"[No memory match]">>

\* _solve_direct: the node afterwards and the confidence returned; answered
\* says whether a specialist whose pattern occurs returned (the others raised)
solve_direct(specialists, node, answered) ==
    IF Specialised(specialists, node.content) /\ answered
    THEN [node |-> [node EXCEPT !.content = SpecialistResult,
                                !.thought_type = "synthesis"],
          confidence |-> (95 * Scale) \div 100]
    ELSE [node |-> [node EXCEPT !.thought_type = "action"],
          confidence |->
              Scale \div 2
              + ((IF (Length(node.content) * Scale) \div 500 > Scale THEN 0
                  ELSE Scale - (Length(node.content) * Scale) \div 500) * 3) \div 10]

RECURSIVE Joined(_)
\* " | ".join(t.content for t in node.sub_thoughts)
Joined(subs) ==
    IF subs = <<>> THEN <<>> ELSE Head(subs).content \o Joined(Tail(subs))

\* _synthesize: the node afterwards and the confidence returned
synthesize(min_confidence, node, subs) ==
    IF subs = <<>> THEN [node |-> node, confidence |-> node.confidence]
    ELSE [node |-> [node EXCEPT !.content = Joined(subs), !.thought_type = "synthesis"],
          confidence |->
              (Len(SelectSeq(subs, LAMBDA t : t.confidence > min_confidence)) * Scale)
                  \div Len(subs)]

\* node.confidence = synthesized_conf * avg_conf, or synthesized_conf
Combined(synthesized_conf, confidences) ==
    IF confidences # <<>>
    THEN (synthesized_conf * (Sum(confidences) \div Len(confidences))) \div Scale
    ELSE synthesized_conf

\* the stack after the top call of _recursive_think has returned confidence:
\* the caller appends it to its confidences
Return(stack, confidence) ==
    IF Len(stack) = 1 THEN <<>>
    ELSE [SubSeq(stack, 1, Len(stack) - 1) EXCEPT
             ![Len(stack) - 1].confidences = Append(@, confidence)]

\* reason() after its _recursive_think(root) has returned:
\* self.thought_history.append(root)
Finished(r, nodes, stack) ==
    [r EXCEPT !.nodes = nodes, !.stack = stack,
              !.thought_history = IF stack = <<>> THEN Append(@, nodes) ELSE @]

(***************************************************************************)
(* The reasoner on its own: a call of reason() runs step by step           *)
(***************************************************************************)
\* the deepest max_depth of the model
DeepestMaxDepth == 2

\* no reason() is called once thought_history has this many trees
MaxThoughts == 2

\* the reasoner of FractalReasoner() and the one of Prometheus
Registries ==
    { [specialists |-> <<>>, min_confidence |-> (7 * Scale) \div 10],
      [specialists |-> <<"code", "math", "retrieve">>,
       min_confidence |-> (6 * Scale) \div 10] }

ReasonerQuestions ==
    {"What is 2+2?",
     "Please write the code that sorts a list of numbers in ascending order",
     "Explain how a hash table resolves collisions between different keys",
     "Compare arrays and linked lists for insertion at the front of a sequence",
     "Plan a three day trip through the mountains with two small children",
     "How would one plan a three day trip through the mountains with children?"}

InitReason ==
    /\ dimensions = 2
    /\ max_patterns = 1
    /\ patterns = <<>>
    /\ index = EmptyMemory.index
    /\ query_count = 0
    /\ associations = NoAssociations
    /\ threads = NoThreads
    /\ \E max_depth \in 0..DeepestMaxDepth, registry \in Registries :
          reasoner = [NoReasoner EXCEPT !.max_depth = max_depth,
                                        !.min_confidence = registry.min_confidence,
                                        !.specialists = registry.specialists]
    /\ swarm = NoSwarm
    /\ last = NoCall

Reasoning == reasoner.stack # <<>>

\* the frame of the running call of _recursive_think and its node
Top == reasoner.stack[Len(reasoner.stack)]

TopNode == reasoner.nodes[Top.node]

ReasonerStep(op, question) ==
    /\ last' = [NoCall EXCEPT !.op = op, !.question = question]
    /\ UNCHANGED <<dimensions, max_patterns, patterns, index, query_count,
                    associations, threads, swarm>>

\* reason(question): the root node, and the call _recursive_think(root)
Reason(question) ==
    /\ ~Reasoning
    /\ Len(reasoner.thought_history) < MaxThoughts
    /\ reasoner' = [reasoner EXCEPT
                       !.nodes = <<ThoughtNode(<<>>, "question", <<question>>, 0)>>,
                       !.stack = <<[node |-> 1, pc |-> "enter", pending |-> <<>>,
                                    confidences |-> <<>>]>>]
    /\ ReasonerStep("reason", question)

\* the base case: return self._solve_direct(node)
SolveDirect(answered) ==
    /\ Reasoning
    /\ Top.pc = "enter"
    /\ BaseCase(reasoner, TopNode)
    /\ \E out \in {solve_direct(reasoner.specialists, TopNode, answered)} :
          reasoner' = Finished(reasoner,
                               [reasoner.nodes EXCEPT ![Top.node] = out.node],
                               Return(reasoner.stack, out.confidence))
    /\ ReasonerStep("_solve_direct", last.question)

\* sub_problems = self._decompose(node)
Decompose ==
    /\ Reasoning
    /\ Top.pc = "enter"
    /\ ~BaseCase(reasoner, TopNode)
    /\ reasoner' = [reasoner EXCEPT
                       !.stack[Len(reasoner.stack)] =
                           [@ EXCEPT !.pc = "loop", !.pending = decompose(TopNode)]]
    /\ ReasonerStep("_decompose", last.question)

\* for sub in sub_problems: node.add_sub_thought(sub); self._recursive_think(sub)
Descend ==
    /\ Reasoning
    /\ Top.pc = "loop"
    /\ Top.pending # <<>>
    /\ reasoner' = [reasoner EXCEPT
                       !.nodes = add_sub_thought(@, Top.node, Head(Top.pending)),
                       !.stack = Append([@ EXCEPT ![Len(@)].pending = Tail(Top.pending)],
                                        [node |-> Len(reasoner.nodes) + 1, pc |-> "enter",
                                         pending |-> <<>>, confidences |-> <<>>])]
    /\ ReasonerStep("add_sub_thought", last.question)

\* after the loop: synthesized_conf = self._synthesize(node);
\* node.confidence = ...; return node.confidence
Synthesize ==
    /\ Reasoning
    /\ Top.pc = "loop"
    /\ Top.pending = <<>>
    /\ \E out \in {synthesize(reasoner.min_confidence, TopNode,
                             SubThoughts(reasoner.nodes, Top.node))} :
          reasoner' = Finished(reasoner,
                               [reasoner.nodes EXCEPT ![Top.node] =
                                   [out.node EXCEPT !.confidence =
                                       Combined(out.confidence, Top.confidences)]],
                               Return(reasoner.stack,
                                      Combined(out.confidence, Top.confidences)))
    /\ ReasonerStep("_synthesize", last.question)

\* the steps of a call in progress
Think ==
    \/ \E answered \in BOOLEAN : SolveDirect(answered)
    \/ Decompose
    \/ Descend
    \/ Synthesize

NextReason ==
    \/ \E question \in ReasonerQuestions : Reason(question)
    \/ Think

SpecReason == InitReason /\ [][NextReason]_vars

\* a call of reason() runs on until it returns: the interpreter keeps
\* executing the thread that is in the call
SpecReasonFair == SpecReason /\ WF_vars(Think)

(***************************************************************************)
(* The memory under the request threads of the web interface.  The server  *)
(* of app.run handles each request in a thread of its own, all on the one  *)
(* Prometheus of create_app, and neither the handlers nor the memory take  *)
(* a lock: the interpreter may switch threads between any two statements.  *)
(* One thread is in store (the writer), another in retrieve (the reader).  *)
(***************************************************************************)
Writer == threads.writer

Reader == threads.reader

\* the contents, metadata and query of the requests
HandlerContents == {<<97>>, <<126, 97>>}

HandlerMetadatas == {None, [tags |-> <<"t1", "t2">>]}

HandlerQueries == {<<97>>}

\* the writer begins no store after this many
MaxStores == 2

ThreadStep(op, id, raised, error, result) ==
    /\ last' = [NoCall EXCEPT !.op = op, !.id = id, !.raised = raised,
                              !.error = error, !.result = result]
    /\ UNCHANGED <<dimensions, max_patterns, query_count, associations,
                    reasoner, swarm>>

\* store up to line 112: the pattern is computed and written into the map;
\* an exception of _dft ends the call before
BeginStore(content, metadata) ==
    /\ Writer.pc = "idle"
    /\ threads.stores < MaxStores
    /\ \A i \in 1..Len(TagsOf(metadata)) :
          TagsOf(metadata)[i] \in DOMAIN index
              => Len(index[TagsOf(metadata)[i]]) < MaxTagList
    /\ \E spectrum \in {dft(text_to_wave(content, dimensions))} :
          IF spectrum.raised
          THEN /\ threads' = [threads EXCEPT !.stores = @ + 1]
               /\ UNCHANGED <<patterns, index>>
               /\ ThreadStep("store", "", TRUE, "ZeroDivisionError", <<>>)
          ELSE /\ patterns' = DictSet(patterns, MemoryPattern(content, metadata, spectrum))
               /\ threads' = [threads EXCEPT !.stores = @ + 1, !.writer =
                                 [pc |-> "index", id |-> pattern_id(content),
                                  tags |-> TagsOf(metadata), victims |-> <<>>]]
               /\ UNCHANGED index
               /\ ThreadStep("store", pattern_id(content), FALSE, "", <<>>)

\* one turn of the loop of lines 115-118
IndexTag ==
    /\ Writer.pc = "index"
    /\ Writer.tags # <<>>
    /\ index' = IndexAppend(index, Head(Writer.tags), Writer.id)
    /\ threads' = [threads EXCEPT !.writer.tags = Tail(@)]
    /\ UNCHANGED patterns
    /\ ThreadStep("store", Writer.id, FALSE, "", <<>>)

\* line 120 after the loop, and lines 187-192 of _prune_weakest when the map
\* is over max_patterns; otherwise store returns
CheckCapacity ==
    /\ Writer.pc = "index"
    /\ Writer.tags = <<>>
    /\ threads' = [threads EXCEPT !.writer =
                      IF Len(patterns) > max_patterns
                      THEN [Writer EXCEPT !.pc = "prune",
                                          !.victims = Weakest(SortByCoherence(patterns))]
                      ELSE Idle]
    /\ UNCHANGED <<patterns, index>>
    /\ ThreadStep("store", Writer.id, FALSE, "", <<>>)

\* the place of the pattern id in the dict
Place(pats, id) == CHOOSE i \in 1..Len(pats) : pats[i].id = id

\* the positions an iterator at pos can be at after the entry at place has
\* been deleted: the dict leaves a hole at a deleted entry and closes the
\* holes when a later insertion rebuilds its table, so an iterator that is
\* past the entry either has one entry less behind it or keeps its count
AfterDelete(reader, place) ==
    IF reader.pc = "scan" /\ place <= reader.pos
    THEN {[reader EXCEPT !.pos = @ - 1], reader}
    ELSE {reader}

\* line 194: del self.patterns[pattern_id]
DeleteVictim ==
    /\ Writer.pc = "prune"
    /\ Writer.victims # <<>>
    /\ patterns' = DictDel(patterns, Head(Writer.victims).id)
    /\ \E reader \in AfterDelete(Reader, Place(patterns, Head(Writer.victims).id)) :
          threads' = [threads EXCEPT !.writer = [Writer EXCEPT !.pc = "strip"],
                                     !.reader = reader]
    /\ UNCHANGED index
    /\ ThreadStep("store", Writer.id, FALSE, "", <<>>)

\* lines 195-197: the id is taken out of the tag lists
StripVictim ==
    /\ Writer.pc = "strip"
    /\ index' = StripId(index, Head(Writer.victims).id)
    /\ threads' = [threads EXCEPT !.writer =
                      [Writer EXCEPT !.pc = "prune", !.victims = Tail(@)]]
    /\ UNCHANGED patterns
    /\ ThreadStep("store", Writer.id, FALSE, "", <<>>)

\* _prune_weakest and store return
EndStore ==
    /\ Writer.pc = "prune"
    /\ Writer.victims = <<>>
    /\ threads' = [threads EXCEPT !.writer = Idle]
    /\ UNCHANGED <<patterns, index>>
    /\ ThreadStep("store", Writer.id, FALSE, "", <<>>)

\* retrieve up to line 135: [] for an empty map, the spectrum of the query,
\* and the iterator over self.patterns.items(), which notes the size of the dict
BeginRetrieve(text, top_k, threshold) ==
    /\ Reader.pc = "idle"
    /\ \E out \in {retrieve(patterns, dimensions, text, top_k, threshold)} :
          IF patterns = <<>> \/ out.raised
          THEN /\ UNCHANGED threads
               /\ ThreadStep("retrieve", "", out.raised,
                             IF out.raised THEN "ZeroDivisionError" ELSE "", <<>>)
          ELSE /\ threads' = [threads EXCEPT !.reader =
                                 [pc |-> "scan", text |-> text, top_k |-> top_k,
                                  threshold |-> threshold, size |-> Len(patterns),
                                  pos |-> 0, seen |-> <<>>]]
               /\ ThreadStep("retrieve", "", FALSE, "", <<>>)
    /\ UNCHANGED <<patterns, index>>

\* one turn of the loop of lines 135-161, or its end and line 163.  The
\* iterator raises RuntimeError (dictionary changed size during iteration)
\* when the dict has another size than at its start.
ScanNext ==
    /\ Reader.pc = "scan"
    /\ IF Len(patterns) # Reader.size
       THEN /\ threads' = [threads EXCEPT !.reader = Idle]
            /\ ThreadStep("retrieve", "", TRUE, "RuntimeError", <<>>)
       ELSE IF Reader.pos < Len(patterns)
       THEN /\ threads' = [threads EXCEPT !.reader =
                              [Reader EXCEPT !.pos = @ + 1,
                                             !.seen = Append(@, patterns[Reader.pos + 1])]]
            /\ ThreadStep("retrieve", "", FALSE, "", <<>>)
       ELSE /\ threads' = [threads EXCEPT !.reader = Idle]
            /\ ThreadStep("retrieve", "", FALSE, "",
                          retrieve(Reader.seen, dimensions, Reader.text,
                                   Reader.top_k, Reader.threshold).result)
    /\ UNCHANGED <<patterns, index>>

NextThreads ==
    \/ \E content \in HandlerContents, metadata \in HandlerMetadatas :
           BeginStore(content, metadata)
    \/ IndexTag
    \/ CheckCapacity
    \/ DeleteVictim
    \/ StripVictim
    \/ EndStore
    \/ \E text \in HandlerQueries :
           \* think: self.memory.retrieve(query, top_k=3, threshold=0.15)
           BeginRetrieve(text, 3, (15 * Scale) \div 100)
    \/ ScanNext

SpecThreads == Init /\ [][NextThreads]_vars

(***************************************************************************)
(* Vocabulary of the claims                                                *)
(***************************************************************************)
Tags == {"t1", "t2"}

StoreReturned == last.op = "store" /\ ~last.raised

RetrieveReturned == last.op = "retrieve" /\ ~last.raised

\* the ids listed under tag t ([] when the tag has no list)
Listed(t) == IF t \in DOMAIN index THEN index[t] ELSE <<>>

\* the score of pattern p for the query of the last call
QueryScore(p, spectrum) == Resonance(p, spectrum.phase, spectrum.amplitude)

\* the positions of the patterns whose score for the query meets the threshold
MatchesOf(pats, spectrum, threshold) ==
    {i \in 1..Len(pats) : QueryScore(pats[i], spectrum) >= threshold}

Matches == MatchesOf(patterns, dft(text_to_wave(last.text, dimensions)), last.threshold)

ResultIds == {last.result[i].id : i \in 1..Len(last.result)}

\* the patterns in another insertion order: positions i and i + 1 exchanged
Swapped(pats, i) ==
    [k \in 1..Len(pats) |-> IF k = i THEN pats[i + 1]
                            ELSE IF k = i + 1 THEN pats[i] ELSE pats[k]]

(***************************************************************************)
(* C1: whenever a store call has returned, the number of patterns is at    *)
(* most max_patterns.                                                      *)
(***************************************************************************)
C1_CapacityBound == StoreReturned => Len(patterns) <= max_patterns

(***************************************************************************)
(* C2: no tag's id list contains the same pattern id more than once.       *)
(***************************************************************************)
C2_NoDuplicateInTagList ==
    \A t \in DOMAIN index :
        \A i, j \in 1..Len(index[t]) : i # j => index[t][i] # index[t][j]

(***************************************************************************)
(* C3: an id that eviction removed from the pattern map occurs in no       *)
(* tag-index list after the eviction.                                      *)
(***************************************************************************)
C3_EvictedAbsentFromIndex ==
    StoreReturned =>
        \A i \in 1..Len(last.evicted) :
            \A t \in DOMAIN index : ~Contains(index[t], last.evicted[i].id)

(***************************************************************************)
(* C4: when eviction fires on a store holding n patterns it removes        *)
(* exactly floor(n/10) patterns, they are gone from the map, and every     *)
(* removed pattern has coherence <= every retained pattern.                *)
(***************************************************************************)
C4_EvictsLowestTenth ==
    (StoreReturned /\ last.pruned) =>
        /\ Len(last.evicted) = (Len(patterns) + Len(last.evicted)) \div 10
        /\ \A i \in 1..Len(last.evicted) :
              /\ last.evicted[i].id \notin Ids(patterns)
              /\ \A j \in 1..Len(last.evicted) :
                    i # j => last.evicted[i].id # last.evicted[j].id
              /\ \A k \in 1..Len(patterns) :
                    last.evicted[i].coherence <= patterns[k].coherence

\* eviction removed a pattern and kept a strictly more coherent one
C4_Witness ==
    /\ StoreReturned /\ last.pruned /\ Len(last.evicted) >= 1
    /\ \E k \in 1..Len(patterns) : last.evicted[1].coherence < patterns[k].coherence

(***************************************************************************)
(* C5: storing the same content twice in a row returns the same id both    *)
(* times and leaves exactly one pattern under that id, with the metadata   *)
(* of the second call; the second call does not grow the pattern count.    *)
(***************************************************************************)
C5_SameContentTwice ==
    [][(StoreReturned /\ last'.op = "store" /\ ~last'.raised /\ last'.text = last.text)
        => /\ last'.id = last.id
           /\ Cardinality({i \in 1..Len(patterns') : patterns'[i].id = last'.id}) = 1
           /\ \A i \in 1..Len(patterns') :
                 patterns'[i].id = last'.id =>
                     patterns'[i].metadata =
                         (IF Truthy(last'.metadata) THEN last'.metadata ELSE EmptyDict)
           /\ Len(patterns') <= Len(patterns)]_vars

(***************************************************************************)
(* C6: a pattern id is listed under tag t if and only if a pattern with    *)
(* that id is in the map and its metadata tags contain t.                  *)
(***************************************************************************)
C6_IndexLockstep ==
    \A t \in Tags :
        /\ \A i \in 1..Len(Listed(t)) :
              \E k \in 1..Len(patterns) :
                  /\ patterns[k].id = Listed(t)[i]
                  /\ Contains(TagsOf(patterns[k].metadata), t)
        /\ \A k \in 1..Len(patterns) :
              Contains(TagsOf(patterns[k].metadata), t) =>
                  Contains(Listed(t), patterns[k].id)

(***************************************************************************)
(* C7: store and retrieve never raise, for any input string, the empty     *)
(* string and all-zero signals included.                                   *)
(***************************************************************************)
C7_NeverRaises == ~last.raised

(***************************************************************************)
(* C8: retrieve returns exactly min(top_k, m) entries, m the number of     *)
(* stored patterns whose score is >= threshold; every entry is a stored   *)
(* id with its score, which is >= threshold.                               *)
(***************************************************************************)
C8_ResultCount ==
    RetrieveReturned =>
        /\ Len(last.result) = Min(last.top_k, Cardinality(Matches))
        /\ \A i \in 1..Len(last.result) :
              \E k \in Matches :
                  /\ patterns[k].id = last.result[i].id
                  /\ last.result[i].score >= last.threshold

\* a retrieve that cut more than top_k matches down to top_k entries
C8_Witness ==
    /\ RetrieveReturned
    /\ last.top_k >= 1
    /\ Len(last.result) = last.top_k
    /\ Cardinality(Matches) > last.top_k

(***************************************************************************)
(* C9 as claimed: the returned sequence is strictly descending by score,   *)
(* and no pattern left out while meeting the threshold scores higher than  *)
(* a returned entry.                                                       *)
(***************************************************************************)
NoBetterLeftOut ==
    \A k \in Matches :
        patterns[k].id \notin ResultIds =>
            \A i \in 1..Len(last.result) :
                QueryScore(patterns[k], dft(text_to_wave(last.text, dimensions)))
                    <= last.result[i].score

C9_StrictlyDescending ==
    RetrieveReturned =>
        /\ \A i \in 1..(Len(last.result) - 1) :
              last.result[i].score > last.result[i + 1].score
        /\ NoBetterLeftOut

(***************************************************************************)
(* C9 amended: the returned sequence is descending by score, not strictly  *)
(* (equal scores may be neighbours), and no pattern left out while meeting *)
(* the threshold scores higher than a returned entry.                      *)
(***************************************************************************)
C9_Descending ==
    RetrieveReturned =>
        /\ \A i \in 1..(Len(last.result) - 1) :
              last.result[i].score >= last.result[i + 1].score
        /\ NoBetterLeftOut

\* two entries of different score were returned and a match was left out
C9_Witness ==
    /\ RetrieveReturned
    /\ Len(last.result) = 2
    /\ last.result[1].score > last.result[2].score
    /\ \E k \in Matches : patterns[k].id \notin ResultIds

(***************************************************************************)
(* C10: a store holding the same patterns in another insertion order       *)
(* returns the same ordered result for the same query, top_k, threshold.   *)
(***************************************************************************)
C10_OrderIndependent ==
    RetrieveReturned =>
        \A i \in 1..(Len(patterns) - 1) :
            retrieve(Swapped(patterns, i), dimensions, last.text, last.top_k,
                     last.threshold).result = last.result

\* the retrieve call of the last step, at another threshold
AtThreshold(t) == retrieve(patterns, dimensions, last.text, last.top_k, t)

(***************************************************************************)
(* C11: for the query, top_k and store of a retrieve call, a threshold     *)
(* at or above the call's threshold never gives more entries than the call *)
(* returned.                                                               *)
(***************************************************************************)
C11_ThresholdMonotone ==
    RetrieveReturned =>
        \A t2 \in Thresholds :
            last.threshold <= t2 =>
                /\ ~AtThreshold(t2).raised
                /\ Len(AtThreshold(t2).result) <= Len(last.result)

\* the call returned two entries and the higher threshold returns fewer
C11_Witness ==
    /\ RetrieveReturned
    /\ Len(last.result) = 2
    /\ \E t2 \in Thresholds :
          /\ last.threshold < t2
          /\ Len(AtThreshold(t2).result) < Len(last.result)

(***************************************************************************)
(* Vocabulary of the claims about reconstruct and get_stats                *)
(***************************************************************************)
\* a reconstruct call on an id that is a key of the pattern map
ReconstructStored == last.op = "reconstruct" /\ last.id \in Ids(patterns)

Half == Scale \div 2

SizeKeys == {"size_kb", "size_mb", "size_estimate"}

\* a sample times 255 brought into the byte range
Clamp(x) == IF x < 0 THEN 0 ELSE IF x > 255 THEN 255 ELSE x

ClampedText(pattern) ==
    LET signal == inverse_dft(pattern.phase_spectrum, pattern.amplitude_spectrum)
    IN Str(Cleaned(decode([t \in 1..Len(signal) |-> Clamp(int255(signal[t]))])))

Hi == <<104, 105>>

(***************************************************************************)
(* C12: get_stats never fails and its answer has the pattern count,        *)
(* avg_coherence, min_coherence, max_coherence and a size estimate; on an  *)
(* empty store the count and every one of these aggregates is 0.           *)
(***************************************************************************)
C12_StatsComplete ==
    last.op = "get_stats" =>
        /\ ~last.raised
        /\ {"patterns", "avg_coherence", "min_coherence", "max_coherence"}
               \subseteq DOMAIN last.stats
        /\ DOMAIN last.stats \cap SizeKeys # {}
        /\ last.stats.patterns = Len(patterns)
        /\ patterns = <<>> => \A k \in DOMAIN last.stats : last.stats[k] = 0

(***************************************************************************)
(* C13: reconstruct of an id that is not a key of the pattern map returns  *)
(* None, raises nothing, and leaves the pattern map and the tag index as   *)
(* they were.                                                              *)
(***************************************************************************)
C13_AbsentIdGivesNone ==
    [][(last'.op = "reconstruct" /\ last'.id \notin Ids(patterns))
        => /\ ~last'.raised
           /\ last'.returned = None
           /\ patterns' = patterns
           /\ index' = index]_vars

\* an absent id was looked up in a store that has patterns and tags
C13_Witness ==
    /\ last.op = "reconstruct"
    /\ last.id \notin Ids(patterns)
    /\ last.returned = None
    /\ patterns # <<>>
    /\ DOMAIN index # {}

(***************************************************************************)
(* C14: reconstruct of a stored pattern with coherence below 0.5 returns   *)
(* the degraded sentinel without running the inverse transform; a pattern  *)
(* with coherence 0.5 or more is never answered with the sentinel.         *)
(***************************************************************************)
C14_FidelityGate ==
    ReconstructStored =>
        /\ Lookup(patterns, last.id).coherence < Half =>
              /\ ~last.raised
              /\ last.returned = Str(Degraded)
              /\ ~last.inverse
        /\ Lookup(patterns, last.id).coherence >= Half =>
              last.returned # Str(Degraded)

\* a pattern loaded with coherence 0.4 was answered with the sentinel
C14_Witness ==
    /\ ReconstructStored
    /\ Lookup(patterns, last.id).coherence = (4 * Scale) \div 10
    /\ last.returned = Str(Degraded)

(***************************************************************************)
(* C15: in a store with a sample for every byte of "hi" (dimensions 64 in  *)
(* the claim, 2 here), reconstruct of the id that store("hi") has just      *)
(* returned gives a string equal to "hi".                                  *)
(***************************************************************************)
C15_ShortAsciiRoundTrip ==
    [][(/\ StoreReturned /\ last.text = Hi /\ ~last.pruned
        /\ dimensions >= Len(encode(Hi))
        /\ last'.op = "reconstruct" /\ last'.id = last.id)
        => /\ ~last'.raised
           /\ last'.returned = Str(Hi)]_vars

(***************************************************************************)
(* C16: for a stored pattern with coherence 0.5 or more, reconstruct does  *)
(* not raise and returns the permissive decoding of the inverse-transform  *)
(* samples times 255, each clamped into the byte range [0, 255].           *)
(***************************************************************************)
C16_ClampedNeverRaises ==
    (ReconstructStored /\ Lookup(patterns, last.id).coherence >= Half) =>
        /\ ~last.raised
        /\ last.inverse
        /\ last.returned = ClampedText(Lookup(patterns, last.id))

\* x * 255 rounded to the nearest integer
Round255(x) == (x * 255 + Scale \div 2) \div Scale

Encoded == last.op = "_text_to_wave"

(***************************************************************************)
(* C17: for a content of fewer bytes than dimensions, the encoder output   *)
(* has length dimensions, entry i times 255, rounded, is byte i of the     *)
(* content, every later entry is 0, and so the rounded entries are the     *)
(* content's bytes again.                                                  *)
(***************************************************************************)
C17_ShortContentDecodes ==
    (Encoded /\ Len(encode(last.text)) < dimensions) =>
        /\ Len(last.signal) = dimensions
        /\ \A i \in 1..Len(encode(last.text)) :
              Round255(last.signal[i]) = encode(last.text)[i]
        /\ \A i \in (Len(encode(last.text)) + 1)..dimensions : last.signal[i] = 0
        /\ [i \in 1..Len(encode(last.text)) |-> Round255(last.signal[i])]
               = encode(last.text)

\* three bytes, one of them above 127, encoded into four samples
C17_Witness ==
    /\ Encoded
    /\ dimensions = 4
    /\ Len(encode(last.text)) = 3
    /\ \E i \in 1..3 : encode(last.text)[i] > 127
    /\ last.signal[4] = 0

(***************************************************************************)
(* Vocabulary of the claims about a query that is the content of a stored  *)
(* pattern                                                                 *)
(***************************************************************************)
\* the retrieve call of the last step asked for the content of a pattern
\* that is in the store
SelfQueried == RetrieveReturned /\ pattern_id(last.text) \in Ids(patterns)

SelfPattern == Lookup(patterns, pattern_id(last.text))

QuerySpectrum == dft(text_to_wave(last.text, dimensions))

\* equal up to the rounding of the fixed-point quotients and square roots
Near(x, y) == Abs(x - y) <= Scale \div 100

\* an amplitude spectrum of zero variance
Flat(amplitude) ==
    \A i, j \in 1..Len(amplitude) : amplitude[i] = amplitude[j]

(***************************************************************************)
(* C18 as claimed: for every content X, the query X scored against the     *)
(* pattern stored from X has phase_score 1.0 and amp_score 1.0, and the    *)
(* resonance retrieve returns for that pattern is the pattern's coherence. *)
(***************************************************************************)
C18_SelfResonance ==
    SelfQueried =>
        /\ PhaseScore(SelfPattern, QuerySpectrum.phase) = Scale
        /\ Near(AmpScore(SelfPattern, QuerySpectrum.amplitude), Scale)
        /\ \A i \in 1..Len(last.result) :
              last.result[i].id = SelfPattern.id =>
                  Near(last.result[i].score, SelfPattern.coherence)

(***************************************************************************)
(* C18 amended: phase_score is 1.0; when the pattern's amplitude spectrum  *)
(* is not constant, amp_score is 1.0 and the resonance returned is the     *)
(* coherence; when it is constant, amp_score is 0 and the resonance        *)
(* returned is half the coherence.                                         *)
(***************************************************************************)
C18_SelfResonanceUnlessFlat ==
    SelfQueried =>
        /\ PhaseScore(SelfPattern, QuerySpectrum.phase) = Scale
        /\ ~Flat(SelfPattern.amplitude_spectrum) =>
              /\ Near(AmpScore(SelfPattern, QuerySpectrum.amplitude), Scale)
              /\ \A i \in 1..Len(last.result) :
                    last.result[i].id = SelfPattern.id =>
                        Near(last.result[i].score, SelfPattern.coherence)
        /\ Flat(SelfPattern.amplitude_spectrum) =>
              /\ AmpScore(SelfPattern, QuerySpectrum.amplitude) = 0
              /\ \A i \in 1..Len(last.result) :
                    last.result[i].id = SelfPattern.id =>
                        last.result[i].score = (Half * SelfPattern.coherence) \div Scale

\* a pattern whose spectrum is not constant was returned for its own content
C18_Witness ==
    /\ SelfQueried
    /\ ~Flat(SelfPattern.amplitude_spectrum)
    /\ SelfPattern.coherence < Scale
    /\ \E i \in 1..Len(last.result) : last.result[i].id = SelfPattern.id

(***************************************************************************)
(* Vocabulary of the claims about the association graph                    *)
(***************************************************************************)
Spread == last.op = "spread_activation"

\* the entries under id ([] when the id has no list)
Associated(assoc, id) == IF id \in DOMAIN assoc THEN assoc[id] ELSE <<>>

\* the nodes within depth edges of the nodes given
RECURSIVE Within(_, _, _)
Within(assoc, nodes, depth) ==
    IF depth = 0 THEN nodes
    ELSE Within(assoc,
                nodes \cup UNION {{Associated(assoc, n)[i].peer :
                                      i \in 1..Len(Associated(assoc, n))} :
                                   n \in nodes},
                depth - 1)

\* the number of (peer, strength) entries under id
Count(assoc, id, peer, strength) ==
    Cardinality({i \in 1..Len(Associated(assoc, id)) :
                    Associated(assoc, id)[i] = [peer |-> peer, strength |-> strength]})

\* the entries a call link(a, b, s) is to add under id for (peer, strength)
Added(a, b, s, id, peer, strength) ==
    (IF <<id, peer, strength>> = <<a, b, s>> THEN 1 ELSE 0)
    + (IF <<id, peer, strength>> = <<b, a, s>> THEN 1 ELSE 0)

Symmetric(assoc) ==
    \A a, b \in Nodes, s \in Strengths : Count(assoc, a, b, s) = Count(assoc, b, a, s)

(***************************************************************************)
(* C19: spread_activation returns every node within depth edges of the     *)
(* start, each once, sorted descending by activation, and the start node   *)
(* is in the result with activation exactly 1.0.                           *)
(***************************************************************************)
C19_StartAtOne ==
    Spread =>
        /\ {last.result[i].id : i \in 1..Len(last.result)}
               = Within(associations, {last.start_pattern}, last.depth)
        /\ \A i, j \in 1..Len(last.result) :
              i < j => /\ last.result[i].id # last.result[j].id
                       /\ last.result[i].activation >= last.result[j].activation
        /\ \E i \in 1..Len(last.result) :
              /\ last.result[i].id = last.start_pattern
              /\ last.result[i].activation = Scale

(***************************************************************************)
(* C20: every link(a, b, s) adds exactly one (b, s) entry under a and one  *)
(* (a, s) entry under b, keeps every entry that was there in its place,    *)
(* and leaves the graph symmetric as a multiset: as many (b, s) entries    *)
(* under a as (a, s) entries under b, parallel edges counted.              *)
(***************************************************************************)
C20_SymmetricMultiset ==
    [][last'.op = "link" =>
        /\ \A id \in Nodes :
              SubSeq(Associated(associations', id), 1, Len(Associated(associations, id)))
                  = Associated(associations, id)
        /\ \A id, peer \in Nodes, s \in Strengths :
              Count(associations', id, peer, s)
                  = Count(associations, id, peer, s)
                    + Added(last'.pattern_a, last'.pattern_b, last'.strength, id, peer, s)
        /\ Symmetric(associations')]_vars

\* the same pair linked twice at the same strength: two parallel edges
C20_Witness ==
    /\ last.op = "link"
    /\ last.pattern_a # last.pattern_b
    /\ Count(associations, last.pattern_a, last.pattern_b, last.strength) = 2
    /\ Count(associations, last.pattern_b, last.pattern_a, last.strength) = 2

(***************************************************************************)
(* C26: after store(content) has returned an id, a pattern with that id is *)
(* in the pattern map, also when the call ran the eviction.                *)
(***************************************************************************)
C26_StoredPatternPresent == StoreReturned => last.id \in Ids(patterns)

(***************************************************************************)
(* C28: a retrieve with threshold 0 and top_k >= 1 whose query is the      *)
(* content of a pattern in the store returns the id of that pattern as its *)
(* first entry.                                                            *)
(***************************************************************************)
C28_ExactContentRanksFirst ==
    (SelfQueried /\ last.threshold = 0 /\ last.top_k >= 1) =>
        /\ Len(last.result) >= 1
        /\ last.result[1].id = pattern_id(last.text)

(***************************************************************************)
(* Vocabulary of the claims about save_state and load_state                *)
(***************************************************************************)
Loaded == last.op = "load_state"

Saved == last.op = "save_state"

\* the ids of the patterns of a document
FileIds(file) == {FilePatterns(file)[i].pid : i \in 1..Len(FilePatterns(file))}

\* the pattern is what load_state makes of an entry of one of the documents
FromDocument(p) ==
    \E file \in Files : \E i \in 1..Len(FilePatterns(file)) :
        p = LoadedPattern(FilePatterns(file)[i].pid, FilePatterns(file)[i].data)

\* the coherence is the mean of the amplitudes and lies in [0, 1]
MeanCoherent(p) ==
    /\ p.amplitude_spectrum # <<>>
    /\ p.coherence = Sum(p.amplitude_spectrum) \div Len(p.amplitude_spectrum)
    /\ p.coherence >= 0
    /\ p.coherence <= Scale

(***************************************************************************)
(* C22: the document save_state writes, loaded by load_state into a fresh  *)
(* Prometheus, gives a pattern map with the same ids and for each id the   *)
(* same phase spectrum, amplitude spectrum, coherence and metadata as at   *)
(* save time, and the query_count of save time.                            *)
(***************************************************************************)
C22_SaveLoadRoundTrip ==
    Saved =>
        \E fresh \in {load_state(EmptyMemory.patterns, last.file)} :
           /\ Ids(fresh.patterns) = Ids(patterns)
           /\ Len(fresh.patterns) = Len(patterns)
           /\ \A id \in Ids(patterns) :
                 /\ Lookup(fresh.patterns, id).phase_spectrum
                        = Lookup(patterns, id).phase_spectrum
                 /\ Lookup(fresh.patterns, id).amplitude_spectrum
                        = Lookup(patterns, id).amplitude_spectrum
                 /\ Lookup(fresh.patterns, id).coherence = Lookup(patterns, id).coherence
                 /\ Lookup(fresh.patterns, id).metadata = Lookup(patterns, id).metadata
           /\ fresh.query_count = query_count

\* a save of several patterns, one of them with tags and one with a
\* coherence that is not the default of load_state, after three queries
C22_Witness ==
    /\ Saved
    /\ Len(patterns) >= 2
    /\ query_count = 3
    /\ \E i \in 1..Len(patterns) : patterns[i].coherence # Scale \div 2
    /\ \E i \in 1..Len(patterns) : patterns[i].metadata # EmptyDict

(***************************************************************************)
(* C23 as claimed: in every reachable state, after any sequence of store,  *)
(* eviction and load_state, the coherence of each pattern is the mean of   *)
(* its amplitude spectrum and lies in [0, 1].                              *)
(***************************************************************************)
C23_CoherenceIsMeanAmplitude ==
    \A i \in 1..Len(patterns) : MeanCoherent(patterns[i])

(***************************************************************************)
(* C23 amended: the coherence of a pattern that store created is the mean  *)
(* of its amplitude spectrum and lies in [0, 1]; a pattern that load_state *)
(* installed has the coherence of its document (0.5 when the document has  *)
(* none), whatever its amplitudes.                                         *)
(***************************************************************************)
C23_CoherenceIsMeanUnlessLoaded ==
    \A i \in 1..Len(patterns) :
        MeanCoherent(patterns[i]) \/ FromDocument(patterns[i])

\* a store after a load: a pattern whose coherence 0.4 is not the mean 1.0
\* of its amplitudes next to a stored pattern whose amplitudes differ
C23_Witness ==
    /\ StoreReturned
    /\ \E i \in 1..Len(patterns) :
          /\ FromDocument(patterns[i])
          /\ ~MeanCoherent(patterns[i])
    /\ \E i \in 1..Len(patterns) :
          /\ patterns[i].id = last.id
          /\ ~Flat(patterns[i].amplitude_spectrum)
          /\ MeanCoherent(patterns[i])

(***************************************************************************)
(* C24: in every reachable state, every pattern in the store and every     *)
(* query spectrum retrieve computes has a phase spectrum and an amplitude  *)
(* spectrum of exactly dimensions entries.                                 *)
(***************************************************************************)
C24_SpectrumLengths ==
    /\ \A i \in 1..Len(patterns) :
          /\ Len(patterns[i].phase_spectrum) = dimensions
          /\ Len(patterns[i].amplitude_spectrum) = dimensions
    /\ \A q \in Queries \ {<<>>} :
          /\ Len(dft(text_to_wave(q, dimensions)).phase) = dimensions
          /\ Len(dft(text_to_wave(q, dimensions)).amplitude) = dimensions

(***************************************************************************)
(* C27: load_state merges into the pattern map: every pattern of the store *)
(* whose id is not in the document is still there, unchanged and in its    *)
(* place, the tag index is exactly as it was, and no pattern is evicted.   *)
(***************************************************************************)
C27_LoadIsPureMerge ==
    [][last'.op = "load_state" =>
        /\ \A i \in 1..Len(patterns) :
              patterns[i].id \notin FileIds(last'.file) =>
                  /\ i <= Len(patterns')
                  /\ patterns'[i] = patterns[i]
        /\ Ids(patterns') = Ids(patterns) \cup FileIds(last'.file)
        /\ index' = index]_vars

\* a load into a full store with tags: one pattern more than max_patterns
C27_Witness ==
    /\ Loaded
    /\ Len(patterns) > max_patterns
    /\ max_patterns > 1
    /\ \E i \in 1..Len(patterns) : patterns[i].id \notin FileIds(last.file)
    /\ DOMAIN index # {}

(***************************************************************************)
(* Vocabulary of the claim about the activation of a node                  *)
(***************************************************************************)
\* the walks of at most depth edges from start, each as the node it ends at
\* and the product of strength * 0.8 along it (1.0 for the walk of no edge)
RECURSIVE Walks(_, _, _)
Walks(assoc, start, depth) ==
    IF depth <= 0 THEN {[id |-> start, activation |-> Scale]}
    ELSE Walks(assoc, start, depth - 1)
         \cup UNION {{[id |-> Associated(assoc, w.id)[i].peer,
                       activation |-> (((w.activation * Associated(assoc, w.id)[i].strength)
                                            \div Scale) * 8) \div 10] :
                         i \in 1..Len(Associated(assoc, w.id))} :
                      w \in Walks(assoc, start, depth - 1)}

\* the largest product over the walks that end at id
BestWalk(walks, id) ==
    CHOOSE a \in {w.activation : w \in {v \in walks : v.id = id}} :
        \A w \in walks : w.id = id => w.activation <= a

(***************************************************************************)
(* C25: the activation spread_activation(start, d) records for a node is   *)
(* the maximum, over the walks of at most d edges from start to the node,  *)
(* of the product of strength * 0.8 along the walk; with A and B linked    *)
(* once at strength 1.0, spread_activation(A, 1) is [(A, 1.0), (B, 0.8)].  *)
(***************************************************************************)
C25_MaximumOverWalks ==
    Spread =>
        \E walks \in {Walks(associations, last.start_pattern, last.depth)} :
           /\ {last.result[i].id : i \in 1..Len(last.result)} = {w.id : w \in walks}
           /\ \A i \in 1..Len(last.result) :
                 last.result[i].activation = BestWalk(walks, last.result[i].id)
           /\ (/\ associations = link(NoAssociations, "A", "B", Scale)
               /\ last.start_pattern = "A"
               /\ last.depth = 1)
              => last.result = << [id |-> "A", activation |-> Scale],
                                  [id |-> "B", activation |-> (8 * Scale) \div 10] >>

\* A and B linked at 1.0 and again at 0.5: two candidates for B in one hop,
\* and the larger one, 0.8, is the one recorded
C25_Witness ==
    /\ Spread
    /\ last.start_pattern = "A"
    /\ last.depth = 1
    /\ Count(associations, "A", "B", Scale) = 1
    /\ Count(associations, "A", "B", Scale \div 2) = 1
    /\ associations["A"][2].strength = Scale \div 2
    /\ last.result = << [id |-> "A", activation |-> Scale],
                        [id |-> "B", activation |-> (8 * Scale) \div 10] >>

(***************************************************************************)
(* C30: every query step returns a result, whatever the specialists        *)
(* registered and for every max_rounds >= 0, and appends exactly one entry *)
(* to conversation_history; with no specialist the consensus returned is   *)
(* {response: "[No response]", confidence: 0}.                             *)
(***************************************************************************)
C30_QueryAlwaysAnswers ==
    [][last'.op = "query" =>
        /\ ~last'.raised
        /\ Len(swarm'.conversation_history) = Len(swarm.conversation_history) + 1
        /\ swarm.specialists = <<>> => last'.returned.consensus = NoResponse]_vars

(***************************************************************************)
(* Vocabulary of the claim about the reasoner                              *)
(***************************************************************************)
\* the trees of the reasoner: the one being built or last returned, and
\* those of thought_history
Trees == {reasoner.nodes} \cup {reasoner.thought_history[i] :
                                   i \in 1..Len(reasoner.thought_history)}

\* no node of the tree is deeper than max_depth, every node is one level
\* below its parent, and a node at max_depth has no sub_thoughts
DepthBounded(tree) ==
    \A i \in 1..Len(tree) :
        /\ tree[i].depth <= reasoner.max_depth
        /\ tree[i].parent # 0 =>
              /\ tree[i].depth = tree[tree[i].parent].depth + 1
              /\ tree[tree[i].parent].depth < reasoner.max_depth

(***************************************************************************)
(* C29: every call of reason() returns, for every question and every       *)
(* max_depth >= 0, and no node of a tree is deeper than max_depth: a node  *)
(* at depth max_depth is solved directly and never decomposed.             *)
(***************************************************************************)
C29_ReasonTerminatesWithinDepth ==
    /\ [](\A tree \in Trees : DepthBounded(tree))
    /\ Reasoning ~> ~Reasoning

\* reason() has returned the tree of a decomposed question with max_depth 1:
\* five sub_thoughts at depth 1, none of them decomposed
C29_Witness ==
    /\ ~Reasoning
    /\ reasoner.max_depth = 1
    /\ Len(reasoner.thought_history) >= 1
    /\ Len(reasoner.nodes) = 6
    /\ reasoner.nodes = reasoner.thought_history[Len(reasoner.thought_history)]
    /\ \A i \in 2..6 : reasoner.nodes[i].depth = 1 /\ reasoner.nodes[i].parent = 1
    /\ reasoner.nodes[1].thought_type = "synthesis"

(***************************************************************************)
(* Vocabulary of the claim about the request threads                       *)
(***************************************************************************)
\* the last step was a step of the thread that is in retrieve
ReaderRan == last.op = "retrieve"

\* the pattern of the store in progress is in the map and a tag of its
\* metadata does not list it yet
HalfStored ==
    /\ Writer.pc = "index"
    /\ \E i \in 1..Len(Writer.tags) :
          \/ Writer.tags[i] \notin DOMAIN index
          \/ ~Contains(index[Writer.tags[i]], Writer.id)

\* the pattern the eviction in progress has deleted from the map is still
\* listed under a tag
HalfEvicted ==
    /\ Writer.pc = "strip"
    /\ \E t \in DOMAIN index : Contains(index[t], Head(Writer.victims).id)

(***************************************************************************)
(* C21: store and eviction apply their update of the pattern map and their *)
(* update of the tag index as one unit: at no step of a concurrent         *)
(* retrieve is the pattern of a store in the map but missing from the      *)
(* index, or an evicted pattern out of the map but still in the index, and *)
(* no scan of the map is interrupted by an update.                         *)
(***************************************************************************)
C21_AtomicMapAndIndex ==
    ReaderRan =>
        /\ ~HalfStored
        /\ ~HalfEvicted
        /\ last.error # "RuntimeError"

====
